---- MODULE Spec2Model ----
(***************************************************************************)
(* State-machine model of the per-repository replication engine of         *)
(* git_sync.py (GitSyncTool.sync_repository / _sync_branch /               *)
(* _sync_step_by_step / _sync_single_commit / sync-state store).           *)
(*                                                                         *)
(* Git objects are modelled structurally.  A commit is a record            *)
(*   [kind, orig, tree]                                                    *)
(* and a branch is the sequence of its commits from the root to the head,  *)
(* so that, as in Git, the identity (SHA) of a commit is determined by the *)
(* commit and all its ancestors.  Source history is one linear chain of    *)
(* commits 1..MaxCommit; a source branch is a position on that chain.      *)
(* A tree is the set of source patches it contains, plus two marks: a      *)
(* change made by somebody else on the destination (foreign) and a         *)
(* .gitattributes written by the large-file detector (attrs).              *)
(***************************************************************************)
EXTENDS Integers, Sequences, FiniteSets, TLC

\* ------------------------------------------------------------------ bounds
MaxCommit == 2
MaxRuns == 2
MaxEnv == 1
MaxFaults == 1

\* ------------------------------------------------------------- vocabulary
SrcBranches == {"main", "dev", "tmp", "sync_state"}
DestNames == {"main", "dev", "develop", "tmp", "sync_state"}
\* the source branches that receive commits, and the destination branches that
\* somebody else pushes to
Committed == {"main", "dev"}
Rewritten == {"main", "dev", "develop"}
\* the order in which `git branch -r` lists the source branches
BranchListing == <<"dev", "main", "sync_state", "tmp">>
\* the branch_map values of the configuration document that are explored
BranchMaps == { [b \in {} |-> "main"], [b \in {"dev"} |-> "develop"] }
\* ignore_branches of the configuration (names matched by a pattern)
IgnoreBranches == {"tmp"}

Commits == 1..MaxCommit

VARIABLES
    src,            \* source repository: branch -> head position (0: no such branch)
    dest,           \* destination repository: branch name -> history (<<>>: absent)
    remote_state,   \* origin/sync_state: [present, doc, state], doc saying what
                    \* sync_state.json is: "complete", "nofile" (no such file),
                    \* "malformed" (no JSON), "incomplete" (JSON without last_sync),
                    \* "partial" (JSON with last_sync, without synced_branches)
    state_commits,  \* number of commits on the destination's sync_state branch
    ws,             \* work directory: [exists, local, head]
    force_full,     \* config.force_full of the current invocation
    clean_history,  \* repo.clean_history
    branch_map,     \* repo.branch_map
    pc,             \* "idle" | "branches" | "tags" | "done"
    runs,           \* completed invocations
    envs,           \* changes made so far by the environment
    faults,         \* git commands that have failed so far for an outside reason
    todo,           \* branches_to_sync not yet processed
    sync_state,     \* the in-memory sync state of the run
    is_full_run,    \* is_full_sync of sync_repository
    report,         \* repo_report / counters of the run
    rep,            \* per source branch: what its replication did in this run
    before,         \* what the run found when it started
    prev,           \* what the previous run left
    call            \* one call of a function studied on its own: its
                    \* arguments and, once made, its results

vars == <<src, dest, remote_state, state_commits, ws, force_full, clean_history,
          branch_map, pc, runs, envs, faults, todo, sync_state, is_full_run, report, rep,
          before, prev, call>>

\* ------------------------------------------------------------ git objects
EmptyTree == [p |-> {}, foreign |-> FALSE, attrs |-> FALSE]
SrcTree(k) == [p |-> 1..k, foreign |-> FALSE, attrs |-> FALSE]
SrcCommit(k) == [kind |-> "src", orig |-> k, tree |-> SrcTree(k)]
\* the commit of the source chain at position k, with its ancestry
SrcHist(k) == [i \in 1..k |-> SrcCommit(i)]

HeadOf(h) == h[Len(h)]
TreeOf(h) == IF h = <<>> THEN EmptyTree ELSE HeadOf(h).tree
IsPrefix(a, b) == Len(a) <= Len(b) /\ SubSeq(b, 1, Len(a)) = a
\* git rev-parse <ref> = <sha of source commit k>
HasSha(h, k) == k > 0 /\ h = SrcHist(k)

\* an assignment that builds the dictionary anew
PutOnly(f, k, v) == [x \in {k} |-> v]

\* dict[key] = value
Put(f, k, v) == [x \in (DOMAIN f) \cup {k} |-> IF x = k THEN v ELSE f[x]]
\* a lookup that finds no entry
GetNone(f, k) == 0

\* dict.get(key): 0 stands for None
Get(f, k) == IF k \in DOMAIN f THEN f[k] ELSE 0

\* ------------------------------------------------------------ sync state
EmptyMap == [b \in {} |-> 0]
EmptyState == [last_sync |-> 0, synced_branches |-> EmptyMap, last_commits |-> EmptyMap]

\* state_key of _sync_branch: "src->dst" when the mapping renames, else "src"
StateKey(source_branch, dest_branch) ==
    IF source_branch # dest_branch THEN <<source_branch, "->", dest_branch>>
    ELSE <<source_branch>>

MapBranchName(branch, bmap) == IF branch \in DOMAIN bmap THEN bmap[branch] ELSE branch

\* a filter that knows the reserved name only
IgnoreReservedOnly(branch) == branch = "sync_state"

ShouldIgnoreBranch(branch) == branch = "sync_state" \/ branch \in IgnoreBranches

Range(s) == {s[i] : i \in DOMAIN s}
Promote(bs, name) == <<name>> \o SelectSeq(bs, LAMBDA b : b # name)
\* _get_branches: the remote branches of `source`, master (else main) first
GetBranches(srcHeads) ==
    LET listed == SelectSeq(BranchListing, LAMBDA b : srcHeads[b] > 0)
    IN  IF "master" \in Range(listed) THEN Promote(listed, "master")
        ELSE IF "main" \in Range(listed) THEN Promote(listed, "main")
        ELSE listed

\* ------------------------------------------------------- work directory
NoWorkDir == [exists |-> FALSE, local |-> {}, head |-> "none"]

\* the branch a fresh clone of the destination checks out
DefaultBranches(d, rs) ==
    IF d["main"] # <<>> THEN {"main"}
    ELSE IF \E b \in DestNames : d[b] # <<>> THEN {b \in DestNames : d[b] # <<>>}
    ELSE IF rs.present THEN {"sync_state"}
    ELSE {"none"}

\* _setup_unified_work_dir: clone the destination when the directory is absent
SetupUnifiedWorkDir(w, default) ==
    IF w.exists THEN w
    ELSE [exists |-> TRUE,
          local |-> IF default = "none" THEN {} ELSE {default},
          head |-> default]

\* a state reader that never finds the persisted state
FetchNothing(w, rs) == [state |-> EmptyState, ws |-> w]

\* a state document that has lost its key synced_branches
WithoutBranches(st) == [k \in (DOMAIN st) \ {"synced_branches"} |-> st[k]]

\* what the read of the persisted state meets
ReadOutcome(rs) == IF rs.present THEN rs.doc ELSE "absent"
\* json.load returns a document without the key last_sync as it is
Incomplete(rs) == ReadOutcome(rs) = "incomplete"

\* _fetch_remote_sync_state: the state read, and the work directory after it.
\* A missing file and a file json.load rejects give the empty state.
FetchRemoteSyncState(w, rs) ==
    IF rs.present
    THEN [state |-> IF rs.doc \in {"complete", "incomplete"} THEN rs.state
                    ELSE IF rs.doc = "partial" THEN WithoutBranches(rs.state)
                    ELSE EmptyState,
          ws |-> [w EXCEPT !.local = @ \cup {"sync_state"}, !.head = "sync_state"]]
    ELSE [state |-> EmptyState, ws |-> w]

\* ------------------------------------------------------- git operations
\* git cherry-pick <k> on top of h: a new commit (new committer data, hence a
\* new identity), its tree the tree of h with patch k applied
CherryPick(h, k) ==
    Append(h, [kind |-> "pick", orig |-> k,
               tree |-> [TreeOf(h) EXCEPT !.p = @ \cup {k}]])
\* a cherry-pick of a patch the tree already holds is empty, and git stops
PickIsEmpty(h, k) == k \in TreeOf(h).p
\* git commit --amend -m "[SYNC] <subject>\n\nOriginal SHA: <sha>", with the
\* .gitattributes the detector staged (if it did)
Amend(h, staged) ==
    [h EXCEPT ![Len(h)] = [kind |-> "sync", orig |-> HeadOf(h).orig,
                            tree |-> [HeadOf(h).tree EXCEPT !.attrs = @ \/ staged]]]
\* a push that the remote takes whatever it holds
PushAlways(local, remote, forced) == TRUE

\* git push: a plain push is rejected unless it is a fast-forward
PushAccepted(local, remote, forced) == forced \/ IsPrefix(remote, local)

\* what the environment decides while one branch is replicated:
\*   large    _calculate_changes_size exceeds repo.lfs_threshold
\*   lfsPre   _check_and_setup_lfs returns True before the bulk replay
\*            (in clean-history mode: the detector's full scan)
\*   lfsAt    the commit at which the per-commit detector returns True (0: none)
\*   failAt   the commit at which a git command fails (0: none; any value > 0
\*            fails the single cherry-pick / push of a bulk replay)
\*   failKind which command fails there
\* Values that no code path reads are fixed: the detector before the bulk replay
\* is not consulted when the changes are large, and a bulk replay has neither
\* per-commit detector nor per-commit commands.
Inputs ==
    {i \in [large : BOOLEAN, lfsPre : BOOLEAN, lfsAt : 0..MaxCommit,
            failAt : 0..MaxCommit, failKind : {"pick", "push"}] :
        /\ i.failAt = 0 => i.failKind = "pick"
        /\ i.large => ~i.lfsPre
        /\ ~i.large /\ ~i.lfsPre => i.lfsAt = 0 /\ i.failAt <= 1}

\* a git command fails for a reason outside the repositories' contents
Faulty(in) == in.failAt > 0

\* the choices that can occur while a branch with n commits is replicated: only
\* its own commits are replayed, and clean-history mode has one commit, one
\* detector scan and one push
Occurs(in, n, clean) ==
    /\ in.failAt <= n /\ in.lfsAt <= n
    /\ clean => /\ ~in.large /\ in.lfsAt = 0 /\ in.failAt <= 1
                /\ in.failAt > 0 => in.failKind = "push"

\* _sync_single_commit
SyncSingleCommit(local, remote, k, hashFlag, force_push, in) ==
    LET needPick == ~HasSha(local, k)
        pickFails == needPick /\ (PickIsEmpty(local, k)
                                  \/ (in.failAt = k /\ in.failKind = "pick"))
        picked == IF needPick THEN CherryPick(local, k) ELSE local
        \* the detector looks at the files changed between the old HEAD and HEAD
        lfs_enabled == needPick /\ in.lfsAt = k
        \* a push record: big says how the pushed commit stores the binary file
        \* over lfs_file_threshold that the detector found in it, LFS being
        \* initialised ("none": no such file found). The detector stages
        \* .gitattributes only, and 'git commit --amend -m' commits what is staged:
        \* the file stays the regular blob the cherry-pick committed
        amend == lfs_enabled \/ hashFlag
        cur == IF amend THEN Amend(picked, lfs_enabled) ELSE picked
        pushed == /\ ~(in.failAt = k /\ in.failKind = "push")
                  /\ PushAccepted(cur, remote, force_push)
    IN  IF pickFails
        THEN \* the handler of line 1564 logs and returns False: no cherry-pick --abort
             [ok |-> FALSE, local |-> local, remote |-> remote, hashFlag |-> hashFlag,
              lfs |-> FALSE, pushes |-> <<>>, pick |-> "left"]
        ELSE [ok |-> pushed, local |-> cur,
              remote |-> IF pushed THEN cur ELSE remote,
              hashFlag |-> amend, lfs |-> lfs_enabled, pick |-> "ok",
              pushes |-> <<[forced |-> force_push, ok |-> pushed,
                           big |-> IF lfs_enabled THEN "blob" ELSE "none"]>>]

\* a loop over commits k..n that goes on to the next commit after a failed one
RECURSIVE SyncCommitsGoOn(_, _, _, _, _, _, _)
SyncCommitsGoOn(local, remote, k, n, hashFlag, force_push, in) ==
    IF k > n
    THEN [ok |-> TRUE, local |-> local, remote |-> remote, lfs |-> FALSE, pushes |-> <<>>,
          pick |-> "ok"]
    ELSE LET r == SyncSingleCommit(local, remote, k, hashFlag, force_push, in)
             rest == SyncCommitsGoOn(r.local, r.remote, k + 1, n, r.hashFlag, force_push, in)
         IN  [ok |-> r.ok /\ rest.ok, local |-> rest.local, remote |-> rest.remote,
              lfs |-> r.lfs \/ rest.lfs, pushes |-> r.pushes \o rest.pushes,
              pick |-> IF r.ok THEN rest.pick ELSE r.pick]

\* the loop of _sync_step_by_step over commits k..n
RECURSIVE SyncCommits(_, _, _, _, _, _, _)
SyncCommits(local, remote, k, n, hashFlag, force_push, in) ==
    IF k > n
    THEN [ok |-> TRUE, local |-> local, remote |-> remote, lfs |-> FALSE, pushes |-> <<>>,
          pick |-> "ok"]
    ELSE LET r == SyncSingleCommit(local, remote, k, hashFlag, force_push, in)
         IN  IF ~r.ok
             THEN [ok |-> FALSE, local |-> r.local, remote |-> r.remote,
                   lfs |-> r.lfs, pushes |-> r.pushes, pick |-> r.pick]
             ELSE LET rest == SyncCommits(r.local, r.remote, k + 1, n, r.hashFlag,
                                          force_push, in)
                  IN  [ok |-> rest.ok, local |-> rest.local, remote |-> rest.remote,
                       lfs |-> r.lfs \/ rest.lfs, pushes |-> r.pushes \o rest.pushes,
                       pick |-> rest.pick]

\* _sync_step_by_step(work_dir, repo, source_branch, last_synced_commit, to_commit,
\* is_full_sync); the force flag of every push is config.force_full
SyncStepByStep(local, remote, last_synced_commit, to_commit, is_full_sync, hashFlag, config_force_full, in) ==
    LET first == IF last_synced_commit # 0 /\ ~is_full_sync
                 THEN last_synced_commit + 1 ELSE 1
        base == IF is_full_sync THEN SrcHist(first) ELSE local
    IN  IF first > to_commit
        THEN [ok |-> TRUE, local |-> local, remote |-> remote, lfs |-> FALSE,
              pushes |-> <<>>, pick |-> "ok"]
        ELSE SyncCommits(base, remote, first, to_commit, hashFlag, config_force_full, in)

\* git cherry-pick <from>..<to> applied to h, all picks succeeding
RECURSIVE PickRange(_, _, _)
PickRange(h, k, n) == IF k > n THEN h ELSE PickRange(CherryPick(h, k), k + 1, n)

\* an outcome without replication that hands back an emptied last_commits
NoSyncClears(result, destD, w, st, last, diverged) ==
    [result |-> result, dest |-> destD, ws |-> w, last_commits |-> EmptyMap,
     pushes |-> <<>>, base |-> last, diverged |-> diverged, mode |-> "none",
     lfs |-> FALSE, full |-> FALSE, pick |-> "ok"]

\* the outcome of _sync_branch when nothing is replicated
NoSync(result, destD, w, st, last, diverged) ==
    [result |-> result, dest |-> destD, ws |-> w, last_commits |-> st.last_commits,
     pushes |-> <<>>, base |-> last, diverged |-> diverged, mode |-> "none",
     lfs |-> FALSE, full |-> FALSE, pick |-> "ok"]

\* _sync_branch, clean-history mode (repo.clean_history): orphan commit of the
\* source head's tree, renamed over the destination branch and force-pushed
CleanHistorySync(dest_branch, key, n, destD, w, st, last, diverged, in) ==
    LET orphan == [w EXCEPT !.local = @ \cup {"temp_clean"}, !.head = "temp_clean"]
        renamed == [w EXCEPT !.local = (@ \ {"temp_clean"}) \cup {dest_branch},
                             !.head = dest_branch]
        commit == [kind |-> "clean", orig |-> n,
                   tree |-> [SrcTree(n) EXCEPT !.attrs = in.lfsPre]]
        failed(wd) == [NoSync("failed", destD, wd, st, last, diverged)
                           EXCEPT !.mode = "clean"]
        \* 'git add .' after 'git lfs track' stages the file through the LFS filter
        stored == IF in.lfsPre THEN "pointer" ELSE "none"
    IN  IF "temp_clean" \in w.local THEN failed(w)          \* checkout --orphan
        ELSE IF w.head = "none"
             THEN failed([w EXCEPT !.head = "temp_clean"])  \* git rm -rf . on an empty index
        ELSE IF dest_branch \notin w.local
             THEN [failed(orphan) EXCEPT !.lfs = in.lfsPre]     \* git branch -D
        ELSE IF in.failAt > 0 /\ in.failKind = "push"
             THEN [failed(renamed) EXCEPT !.lfs = in.lfsPre,
                                          !.pushes = <<[forced |-> TRUE, ok |-> FALSE, big |-> stored]>>]
        ELSE [result |-> "synced", dest |-> <<commit>>, ws |-> renamed,
              last_commits |-> Put(st.last_commits, key, n),
              pushes |-> <<[forced |-> TRUE, ok |-> TRUE, big |-> stored]>>,
              base |-> last, diverged |-> diverged, mode |-> "clean",
              lfs |-> in.lfsPre, full |-> TRUE, pick |-> "ok"]

\* _sync_branch, cherry-pick strategy (full or incremental)
CherryPickSync(dest_branch, key, n, destD, w, st, last, diverged, is_full_arg, config_force_full, in) ==
    LET originExists == destD # <<>>
        \* the working branch: origin/D when it exists, else a new branch at source/S
        local == IF originExists THEN destD ELSE SrcHist(n)
        is_full_sync == is_full_arg \/ ~originExists
        wd == [w EXCEPT !.local = @ \cup {dest_branch}, !.head = dest_branch]
        \* pick: "ok" when no cherry-pick failed, "aborted" when one failed and
        \* 'git cherry-pick --abort' (or the reset behind it) was issued, "left"
        \* when one failed and the workspace was left as it was
        out(result, d, pushes, mode, lfs, pick) ==
            [result |-> result, dest |-> d, ws |-> wd,
             last_commits |-> IF result = "synced"
                              THEN Put(st.last_commits, key, n) ELSE st.last_commits,
             pushes |-> pushes, base |-> last, diverged |-> diverged, mode |-> mode,
             lfs |-> lfs, full |-> is_full_sync, pick |-> pick]
        step == SyncStepByStep(local, destD, last, n, is_full_sync, diverged,
                               config_force_full, in)
        gitFails(kind) == in.failAt > 0 /\ in.failKind = kind
        \* the bulk replay: one cherry-pick call
        rangeFails == \/ gitFails("pick")
                      \/ last + 1 > n
                      \/ \E k \in (last + 1)..n : PickIsEmpty(local, k)
        single == IF HasSha(local, n) \/ PickIsEmpty(local, n) \/ gitFails("pick")
                  THEN local ELSE CherryPick(local, n)
        picked == IF last # 0 THEN PickRange(local, last + 1, n)
                  ELSE IF ~is_full_sync THEN single
                  ELSE local
        pushed == ~gitFails("push") /\ PushAccepted(picked, destD, is_full_sync)
    IN  IF in.large \/ in.lfsPre
        THEN \* the result of _sync_step_by_step is not looked at
             out("synced", step.remote, step.pushes, "step", in.lfsPre \/ step.lfs, step.pick)
        ELSE IF last # 0 /\ rangeFails
             THEN out("failed", destD, <<>>, "bulk", FALSE, "aborted")
        ELSE IF ~pushed
             THEN out("failed", destD, <<[forced |-> is_full_sync, ok |-> FALSE, big |-> "none"]>>,
                      "bulk", FALSE, "ok")
        ELSE out("synced", picked, <<[forced |-> is_full_sync, ok |-> TRUE, big |-> "none"]>>,
                 "bulk", FALSE, "ok")

\* a replicator that tests for clean-history mode before the up-to-date test
SyncBranchCleanFirst(source_branch, dest_branch, is_full_arg, st, n, destD, w, clean, config_force_full, in) ==
    LET key == StateKey(source_branch, dest_branch)
        last == IF is_full_arg THEN 0 ELSE Get(st.last_commits, key)
        diverged == destD # <<>> /\ last # 0 /\ ~HasSha(destD, last)
    IN  IF n = 0 THEN NoSync("failed", destD, w, st, 0, FALSE)
        ELSE IF clean
             THEN CleanHistorySync(dest_branch, key, n, destD, w, st, last, diverged, in)
        ELSE IF last # 0 /\ last = n
             THEN NoSync("skipped", destD, w, st, last, FALSE)
        ELSE CherryPickSync(dest_branch, key, n, destD, w, st, last, diverged,
                            is_full_arg, config_force_full, in)

\* _sync_branch(repo, source_branch, dest_branch, is_full_sync, sync_state)
SyncBranch(source_branch, dest_branch, is_full_arg, st, n, destD, w, clean, config_force_full, in) ==
    LET key == StateKey(source_branch, dest_branch)
        last_synced_commit == IF is_full_arg THEN 0 ELSE Get(st.last_commits, key)
        \* repo.add_original_hash as set before the replay
        diverged == /\ destD # <<>>
                    /\ last_synced_commit # 0
                    /\ ~HasSha(destD, last_synced_commit)
    IN  IF n = 0 THEN NoSync("failed", destD, w, st, 0, FALSE)   \* no source commit
        ELSE IF last_synced_commit # 0 /\ last_synced_commit = n
             THEN NoSync("skipped", destD, w, st, last_synced_commit, FALSE)
        ELSE IF clean
             THEN CleanHistorySync(dest_branch, key, n, destD, w, st,
                                   last_synced_commit, diverged, in)
        ELSE CherryPickSync(dest_branch, key, n, destD, w, st, last_synced_commit,
                            diverged, is_full_arg, config_force_full, in)

\* ---------------------------------------------------------------- state
\* a commit made on top of h by somebody who is not this tool
ForeignCommit(h) == [kind |-> "foreign", orig |-> 0,
                     tree |-> [TreeOf(h) EXCEPT !.foreign = TRUE]]

NoReport == [status |-> "none", mode |-> "unknown", branches_synced |-> 0,
             branches_skipped |-> 0, new_branches |-> 0, branches_failed |-> 0,
             state_saves |-> 0, state_written |-> FALSE, error |-> FALSE,
             lfs_triggered |-> FALSE, tag_pushes |-> 0, tag_failures |-> 0,
             ignored_branches |-> {}]
NoRep == [result |-> "none", dst |-> "none", full_arg |-> FALSE, full |-> FALSE,
          base |-> 0, diverged |-> FALSE, mode |-> "none", pushes |-> <<>>,
          srcHead |-> 0, destBefore |-> <<>>, pick |-> "ok", lfs |-> FALSE]
NoPrev == [valid |-> FALSE, all_synced |-> FALSE, saved |-> FALSE, written |-> FALSE,
           force_full |-> FALSE, src |-> [b \in SrcBranches |-> 0],
           map |-> [b \in {} |-> "main"]]
\* no function is being studied on its own
NoCall == [at |-> "none"]
NoRemoteState == [present |-> FALSE, doc |-> "nofile", state |-> EmptyState]

\* what an earlier complete run that replicated main at its first commit left
\* on the destination: the branch, and the state on the sync_state branch
SyncedBefore(clean) ==
    [main |-> IF clean THEN <<[kind |-> "clean", orig |-> 1, tree |-> SrcTree(1)]>>
              ELSE SrcHist(1),
     remote_state |-> [present |-> TRUE, doc |-> "complete",
                       state |-> [last_sync |-> 1,
                                  synced_branches |-> Put(EmptyMap, "main", "main"),
                                  last_commits |-> Put(EmptyMap, StateKey("main", "main"), 1)]],
     state_commits |-> 1]
\* the destinations a first observed run can meet: empty, holding a main of its
\* own, or synchronized before (with a workspace that is gone)
Starts(clean) ==
    {[main |-> <<>>, remote_state |-> NoRemoteState, state_commits |-> 0],
     [main |-> <<ForeignCommit(<<>>)>>, remote_state |-> NoRemoteState, state_commits |-> 0],
     SyncedBefore(clean)}

\* a destination synchronized before whose sync_state.json has since been
\* deleted, overwritten with text that is no JSON, or replaced by a JSON
\* object without last_sync or without synced_branches; and, for comparison,
\* the intact one
Damaged(clean) ==
    {[SyncedBefore(clean) EXCEPT !.remote_state.doc = d] :
        d \in {"complete", "nofile", "malformed", "incomplete", "partial"}}

\* the state before the first observed run, for given source heads and a
\* branch_map among maps
Begin(heads, maps, damaged) ==
    /\ src = heads
    /\ clean_history \in BOOLEAN
    /\ \E start \in IF damaged THEN Damaged(clean_history) ELSE Starts(clean_history) :
          /\ dest = [d \in DestNames |-> IF d = "main" THEN start.main ELSE <<>>]
          /\ remote_state = start.remote_state
          /\ state_commits = start.state_commits
    /\ ws = NoWorkDir
    /\ force_full = FALSE
    /\ branch_map \in maps
    /\ pc = "idle"
    /\ runs = 0
    /\ envs = 0
    /\ faults = 0
    /\ todo = <<>>
    /\ sync_state = EmptyState
    /\ is_full_run = FALSE
    /\ report = NoReport
    /\ rep = [b \in SrcBranches |-> NoRep]
    /\ before = [prev |-> NoPrev, dest |-> dest, state_commits |-> state_commits,
                 state |-> EmptyState, read |-> "none"]
    /\ prev = NoPrev

Init == Begin([b \in SrcBranches |-> IF b = "main" THEN 1 ELSE 0], {[b \in {} |-> "main"]}, FALSE) /\ call = NoCall

Idle == pc \in {"idle", "done"} /\ runs < MaxRuns
Change == Idle /\ envs < MaxEnv /\ envs' = envs + 1 /\ pc' = "idle"
\* between two invocations the process has exited: what the last run held in
\* memory (its options, its sync state, its report) is gone
Forget ==
    /\ force_full' = FALSE
    /\ todo' = <<>>
    /\ sync_state' = EmptyState
    /\ is_full_run' = FALSE
    /\ report' = NoReport
    /\ rep' = [b \in SrcBranches |-> NoRep]
    /\ before' = [prev |-> NoPrev, dest |-> dest', state_commits |-> state_commits,
                  state |-> EmptyState, read |-> "none"]

\* ------------------------------------------------------ the environment
\* somebody commits to a source branch (or creates it)
SourceCommit(b) ==
    /\ Change
    /\ src[b] < MaxCommit
    /\ src' = [src EXCEPT ![b] = @ + 1]
    /\ UNCHANGED <<call, dest, remote_state, state_commits, ws, clean_history,
                   branch_map, runs, faults, prev>>
    /\ Forget

\* somebody else pushes a commit of their own to a destination branch
DestRewrite(d) ==
    /\ Change
    /\ ~TreeOf(dest[d]).foreign
    /\ dest' = [dest EXCEPT ![d] = Append(@, ForeignCommit(@))]
    /\ UNCHANGED <<call, src, remote_state, state_commits, ws, clean_history,
                   branch_map, runs, faults, prev>>
    /\ Forget

\* the operator edits branch_map in the configuration document
ConfigChange ==
    /\ Change
    /\ branch_map' \in BranchMaps \ {branch_map}
    /\ UNCHANGED <<call, src, dest, remote_state, state_commits, ws, clean_history,
                   runs, faults, prev>>
    /\ Forget

\* ------------------------------------------------------ sync_repository
\* sync_repository up to the branch loop: read the state, choose the mode, set
\* up and fetch the work directory, enumerate and filter the source branches
StartRun(cli_force_full) ==
    /\ Idle
    /\ ~Incomplete(remote_state)
    /\ \E default \in DefaultBranches(dest, remote_state) :
         LET got == FetchRemoteSyncState(SetupUnifiedWorkDir(ws, default), remote_state)
             is_full_sync == cli_force_full \/ got.state.last_sync = 0
         IN  /\ sync_state' = got.state
             /\ ws' = got.ws
             /\ before' = [prev |-> prev, dest |-> dest,
                           state_commits |-> state_commits, state |-> got.state,
                           read |-> ReadOutcome(remote_state)]
             /\ is_full_run' = is_full_sync
             /\ report' = [NoReport EXCEPT
                              !.mode = IF is_full_sync THEN "full" ELSE "incremental",
                              !.ignored_branches =
                                  {b \in Range(GetBranches(src)) : ShouldIgnoreBranch(b)}]
    /\ force_full' = cli_force_full
    /\ todo' = SelectSeq(GetBranches(src), LAMBDA b : ~ShouldIgnoreBranch(b))
    /\ rep' = [b \in SrcBranches |-> NoRep]
    /\ pc' = "branches"
    /\ UNCHANGED <<call, src, dest, remote_state, state_commits, clean_history, branch_map,
                   runs, envs, faults, prev>>

\* sync_repository when the read of the state raises inside
\* _fetch_remote_sync_state (here: its fetch of origin fails): the handler
\* returns the empty state and the run goes on
StartRunUnread(cli_force_full) ==
    /\ Idle
    /\ faults < MaxFaults
    /\ faults' = faults + 1
    /\ \E default \in DefaultBranches(dest, remote_state) :
         /\ ws' = SetupUnifiedWorkDir(ws, default)
         /\ sync_state' = EmptyState
         /\ before' = [prev |-> prev, dest |-> dest, state_commits |-> state_commits,
                       state |-> EmptyState, read |-> "fault"]
         /\ is_full_run' = TRUE
         /\ report' = [NoReport EXCEPT
                          !.mode = "full",
                          !.ignored_branches =
                              {b \in Range(GetBranches(src)) : ShouldIgnoreBranch(b)}]
    /\ force_full' = cli_force_full
    /\ todo' = SelectSeq(GetBranches(src), LAMBDA b : ~ShouldIgnoreBranch(b))
    /\ rep' = [b \in SrcBranches |-> NoRep]
    /\ pc' = "branches"
    /\ UNCHANGED <<call, src, dest, remote_state, state_commits, clean_history, branch_map,
                   runs, envs, prev>>

\* sync_repository when sync_state.json is JSON without the key last_sync:
\* _fetch_remote_sync_state returns the document, sync_state['last_sync']
\* raises KeyError before the mode is set, and the handler at the end of
\* sync_repository records the error
LoadFails(cli_force_full) ==
    /\ Idle
    /\ Incomplete(remote_state)
    /\ \E default \in DefaultBranches(dest, remote_state) :
         LET got == FetchRemoteSyncState(SetupUnifiedWorkDir(ws, default), remote_state)
         IN  /\ ws' = got.ws
             /\ before' = [prev |-> prev, dest |-> dest, state_commits |-> state_commits,
                           state |-> got.state, read |-> ReadOutcome(remote_state)]
    /\ sync_state' = EmptyState
    /\ is_full_run' = FALSE
    /\ report' = [NoReport EXCEPT !.status = "failed", !.error = TRUE]
    /\ force_full' = cli_force_full
    /\ todo' = <<>>
    /\ rep' = [b \in SrcBranches |-> NoRep]
    /\ prev' = [NoPrev EXCEPT !.valid = TRUE, !.force_full = cli_force_full,
                              !.src = src, !.map = branch_map]
    /\ pc' = "done"
    /\ runs' = runs + 1
    /\ UNCHANGED <<call, src, dest, remote_state, state_commits, clean_history, branch_map,
                   envs, faults>>

\* sync_repository when one of its fetches (source, source tags, origin) fails:
\* _run_git_command raises, the handler at the end of sync_repository records
\* the error, and the report keeps the status 'failed' it was created with
AbortRun(cli_force_full) ==
    /\ Idle
    /\ ~Incomplete(remote_state)
    /\ faults < MaxFaults
    /\ faults' = faults + 1
    /\ \E default \in DefaultBranches(dest, remote_state) :
         LET got == FetchRemoteSyncState(SetupUnifiedWorkDir(ws, default), remote_state)
             is_full_sync == cli_force_full \/ got.state.last_sync = 0
         IN  /\ sync_state' = got.state
             /\ ws' = got.ws
             /\ before' = [prev |-> prev, dest |-> dest,
                           state_commits |-> state_commits, state |-> got.state,
                           read |-> ReadOutcome(remote_state)]
             /\ is_full_run' = is_full_sync
             /\ report' = [NoReport EXCEPT
                              !.status = "failed",
                              !.mode = IF is_full_sync THEN "full" ELSE "incremental",
                              !.error = TRUE]
    /\ force_full' = cli_force_full
    /\ todo' = <<>>
    /\ rep' = [b \in SrcBranches |-> NoRep]
    /\ prev' = [NoPrev EXCEPT !.valid = TRUE, !.force_full = cli_force_full,
                              !.src = src, !.map = branch_map]
    /\ pc' = "done"
    /\ runs' = runs + 1
    /\ UNCHANGED <<call, src, dest, remote_state, state_commits, clean_history, branch_map,
                   envs>>

\* one iteration of the branch loop of sync_repository
SyncNextBranch ==
    /\ pc = "branches"
    /\ todo # <<>>
    /\ "synced_branches" \in DOMAIN sync_state
    /\ \E in \in Inputs :
         /\ Occurs(in, src[Head(todo)], clean_history)
         /\ Faulty(in) => faults < MaxFaults
         /\ faults' = IF Faulty(in) THEN faults + 1 ELSE faults
         /\ LET branch == Head(todo)
               mapped_branch == MapBranchName(branch, branch_map)
               is_new_branch == branch \notin DOMAIN sync_state.synced_branches
               mapping_changed == /\ branch \in DOMAIN sync_state.synced_branches
                                  /\ sync_state.synced_branches[branch] # mapped_branch
               is_full_arg == is_full_run \/ is_new_branch \/ mapping_changed
           IN  \E r \in {SyncBranch(branch, mapped_branch, is_full_arg, sync_state,
                                     src[branch], dest[mapped_branch], ws,
                                     clean_history, force_full, in)} :
               /\ dest' = [dest EXCEPT ![mapped_branch] = r.dest]
               /\ ws' = r.ws
               /\ sync_state' =
                     [sync_state EXCEPT
                         !.last_commits = r.last_commits,
                         !.synced_branches = IF r.result = "synced"
                                             THEN Put(@, branch, mapped_branch) ELSE @]
               /\ report' =
                     [report EXCEPT
                         !.new_branches = IF is_new_branch \/ mapping_changed
                                          THEN @ + 1 ELSE @,
                         !.branches_synced = IF r.result = "synced" THEN @ + 1 ELSE @,
                         !.branches_skipped = IF r.result = "skipped" THEN @ + 1 ELSE @,
                         !.branches_failed = IF r.result = "failed" THEN @ + 1 ELSE @]
               /\ rep' = [rep EXCEPT ![branch] =
                     [result |-> r.result, dst |-> mapped_branch,
                      full_arg |-> is_full_arg, full |-> r.full, base |-> r.base,
                      diverged |-> r.diverged, mode |-> r.mode, pushes |-> r.pushes,
                      srcHead |-> src[branch], destBefore |-> dest[mapped_branch],
                      pick |-> r.pick, lfs |-> r.lfs]]
    /\ todo' = Tail(todo)
    /\ UNCHANGED <<call, src, remote_state, state_commits, force_full, clean_history,
                   branch_map, pc, runs, envs, is_full_run, before, prev>>

\* one iteration of the branch loop when the state read has no key
\* synced_branches: the test of line 1028 raises KeyError, the handler of
\* the iteration logs it and goes on to the next branch, no counter changed
BranchRaises ==
    /\ pc = "branches"
    /\ todo # <<>>
    /\ "synced_branches" \notin DOMAIN sync_state
    /\ todo' = Tail(todo)
    /\ UNCHANGED <<call, src, dest, remote_state, state_commits, ws, force_full,
                   clean_history, branch_map, pc, runs, envs, faults, sync_state,
                   is_full_run, report, rep, before, prev>>

\* a tag push whose failure is not caught: the exception reaches the handler of
\* the whole function
PushTagsUnguarded ==
    /\ pc = "branches"
    /\ todo = <<>>
    /\ \E tagsOk \in BOOLEAN :
         /\ ~tagsOk => faults < MaxFaults
         /\ faults' = IF tagsOk THEN faults ELSE faults + 1
         /\ report' = [report EXCEPT
                          !.tag_pushes = @ + 1,
                          !.tag_failures = IF tagsOk THEN @ ELSE @ + 1,
                          !.status = IF tagsOk THEN @ ELSE "failed",
                          !.error = ~tagsOk]
         /\ pc' = IF tagsOk THEN "tags" ELSE "done"
         /\ runs' = IF tagsOk THEN runs ELSE runs + 1
    /\ UNCHANGED <<call, src, dest, remote_state, state_commits, ws, force_full,
                   clean_history, branch_map, envs, todo, sync_state, is_full_run,
                   rep, before, prev>>

\* sync_repository after the branch loop: 'git push origin --tags', a failure
\* of which is logged as a warning
PushTags ==
    /\ pc = "branches"
    /\ todo = <<>>
    /\ \E tagsOk \in BOOLEAN :
         /\ ~tagsOk => faults < MaxFaults
         /\ faults' = IF tagsOk THEN faults ELSE faults + 1
         /\ report' = [report EXCEPT
                          !.tag_pushes = @ + 1,
                          !.tag_failures = IF tagsOk THEN @ ELSE @ + 1]
    /\ pc' = "tags"
    /\ UNCHANGED <<call, src, dest, remote_state, state_commits, ws, force_full,
                   clean_history, branch_map, runs, envs, todo, sync_state,
                   is_full_run, rep, before, prev>>

\* _save_sync_state / _push_remote_sync_state: commit sync_state.json on the
\* sync_state branch and push it
SaveSyncState(st, pushOk) ==
    /\ ws' = [ws EXCEPT !.local = @ \cup {"sync_state"}, !.head = "sync_state"]
    /\ IF pushOk
       THEN /\ remote_state' = [present |-> TRUE, doc |-> "complete", state |-> st]
            /\ state_commits' = state_commits + 1
       ELSE UNCHANGED <<remote_state, state_commits>>

\* a state that never holds back the write
AlwaysSave(synced_count) == TRUE

\* "Update sync state only if branches were actually synced"
ShouldSave(synced_count) == synced_count > 0

\* sync_repository after the tag push: save the state when a branch was
\* synced, set the status and the counters of the report; the entry
\* lfs_triggered keeps the value the report was created with
FinishRun ==
    /\ pc = "tags"
    /\ \E pushOk \in BOOLEAN :
         /\ ~pushOk => faults < MaxFaults
         /\ faults' = IF pushOk THEN faults ELSE faults + 1
         /\ LET synced_count == report.branches_synced
                failed_count == report.branches_failed
                saved == [sync_state EXCEPT !.last_sync = runs + 1]
                written == ShouldSave(synced_count) /\ pushOk
                status == IF failed_count > 0
                          THEN (IF synced_count > 0 THEN "partial_success" ELSE "failed")
                          ELSE "success"
            IN  /\ IF ShouldSave(synced_count)
                   THEN /\ sync_state' = saved
                        /\ SaveSyncState(saved, pushOk)
                   ELSE /\ pushOk
                        /\ UNCHANGED <<sync_state, ws, remote_state, state_commits>>
                /\ report' = [report EXCEPT
                                 !.status = status,
                                 !.state_saves = IF ShouldSave(synced_count) THEN 1 ELSE 0,
                                 !.state_written = written]
                /\ prev' = [valid |-> TRUE,
                            all_synced |-> \A b \in SrcBranches :
                                              src[b] > 0 /\ ~ShouldIgnoreBranch(b)
                                                => rep[b].result = "synced",
                            saved |-> ShouldSave(synced_count),
                            written |-> written,
                            force_full |-> force_full,
                            src |-> src,
                            map |-> branch_map]
    /\ pc' = "done"
    /\ runs' = runs + 1
    /\ UNCHANGED <<call, src, dest, force_full, clean_history, branch_map, envs, todo,
                   is_full_run, rep, before>>

Next ==
    \/ \E b \in Committed : SourceCommit(b)
    \/ \E d \in Rewritten : DestRewrite(d)
    \/ ConfigChange
    \/ \E f \in BOOLEAN : StartRun(f)
    \/ \E f \in BOOLEAN : AbortRun(f)
    \/ SyncNextBranch
    \/ PushTags
    \/ FinishRun

Spec == Init /\ [][Next]_vars

\* the same program on a source that also holds a branch named sync_state and a
\* branch matched by an ignore pattern, both given a destination by branch_map
IgnoredMap == [b \in {"tmp", "sync_state"} |-> IF b = "tmp" THEN "develop" ELSE "dev"]
InitIgnore == Begin([b \in SrcBranches |-> IF b = "dev" THEN 0 ELSE 1], {IgnoredMap}, FALSE) /\ call = NoCall
SpecIgnore == InitIgnore /\ [][Next]_vars

\* the same program under a branch_map that gives a source branch the
\* destination name sync_state. Of the destination's sync_state branch the
\* model keeps the replicated commits (dest) apart from the state document
\* (remote_state), whatever their order on the branch.
ReservedMap == [b \in {"dev"} |-> "sync_state"]
InitReserved == Begin([b \in SrcBranches |-> IF b \in Committed THEN 1 ELSE 0], {ReservedMap}, FALSE) /\ call = NoCall
SpecReserved == InitReserved /\ [][Next]_vars

\* the same program on a source whose branches main and dev both exist from
\* the start
InitBoth == Begin([b \in SrcBranches |-> IF b \in Committed THEN 1 ELSE 0], BranchMaps, FALSE) /\ call = NoCall
SpecBoth == InitBoth /\ [][Next]_vars

\* the same program with the failures of the state read: a destination whose
\* sync_state.json is damaged, and a read that raises
InitRead == Begin([b \in SrcBranches |-> IF b = "main" THEN 1 ELSE 0], {[b \in {} |-> "main"]}, TRUE) /\ call = NoCall
NextRead ==
    \/ Next
    \/ \E f \in BOOLEAN : StartRunUnread(f)
    \/ \E f \in BOOLEAN : LoadFails(f)
    \/ BranchRaises
SpecRead == InitRead /\ [][NextRead]_vars

\* ============================================================== properties
InRun == pc \in {"branches", "tags", "done"}
\* the source branches the run has replicated so far
Processed == {b \in SrcBranches : rep[b].result # "none"}
ToSync == {b \in SrcBranches : src[b] > 0 /\ ~ShouldIgnoreBranch(b)}
PushFailed(b) == \E i \in DOMAIN rep[b].pushes : ~rep[b].pushes[i].ok
AllForced(b) == \A i \in DOMAIN rep[b].pushes : rep[b].pushes[i].forced
AllPlain(b) == \A i \in DOMAIN rep[b].pushes : ~rep[b].pushes[i].forced
LoadedKey(b) == StateKey(b, rep[b].dst)

\* C1: for every branch whose outcome is 'synced', the head of D on the
\* destination has the tree of the source head observed when the branch was
\* replicated.
C1_SyncedHeadHasSourceTree ==
    InRun =>
      \A b \in Processed :
         rep[b].result = "synced"
           => /\ dest[rep[b].dst] # <<>>
              /\ TreeOf(dest[rep[b].dst]) = SrcTree(rep[b].srcHead)

\* C2: a failed push of the destination branch (the push of a bulk replay or
\* of one commit of a commit-by-commit replay) makes the branch outcome
\* 'failed', and the remaining branches of the repository are still replicated.
C2_PushFailureFailsBranch ==
    /\ InRun => \A b \in Processed : PushFailed(b) => rep[b].result = "failed"
    /\ pc = "done" /\ ~report.error => Processed = ToSync

\* C3: every entry last_commits[key] of a pair S->D names a commit whose
\* replication has been pushed to origin/D: the commit or its replayed
\* counterpart is in the history of origin/D.
C3_LastCommitsReachable ==
    InRun =>
      \A b \in Processed :
         LoadedKey(b) \in DOMAIN sync_state.last_commits
           => \E i \in DOMAIN dest[rep[b].dst] :
                 /\ dest[rep[b].dst][i].kind # "foreign"
                 /\ dest[rep[b].dst][i].orig = sync_state.last_commits[LoadedKey(b)]

\* the run, whose fetches succeed, follows, with the same source heads and the
\* same branch_map and without force_full, a run without force_full that synced
\* every branch and wrote the state
IdempotentRerun ==
    /\ InRun /\ ~report.error
    /\ before.prev.valid /\ before.prev.all_synced /\ before.prev.written
    /\ ~before.prev.force_full /\ ~force_full
    /\ before.prev.src = src /\ before.prev.map = branch_map

UpToDate(b) == Get(before.state.last_commits, LoadedKey(b)) = rep[b].srcHead
\* neither checkout, commit nor push was made for the destination of b
Untouched(b) ==
    /\ rep[b].mode = "none"
    /\ rep[b].pushes = <<>>
    /\ dest[rep[b].dst] = rep[b].destBefore
\* the run does not replay b in full: no force_full, a state with last_sync
\* was loaded, and it maps b to the destination used now
NotDueForFull(b) ==
    /\ ~force_full
    /\ before.state.last_sync # 0
    /\ b \in DOMAIN before.state.synced_branches
    /\ before.state.synced_branches[b] = rep[b].dst

\* C5 (as stated): whenever the loaded last_commits[key] equals the resolved
\* hash of source/S, the branch is 'skipped' and nothing is done for D, for
\* every value of force_full and clean_history.
C5_SkipForEveryFlag ==
    InRun =>
      \A b \in Processed :
         UpToDate(b) => rep[b].result = "skipped" /\ Untouched(b)

\* C5 (amended): when the branch is not due for a full replay (force_full
\* unset, a persisted state with last_sync loaded, S in synced_branches mapped
\* to D) and the loaded last_commits[key] equals the resolved hash of source/S,
\* the branch is 'skipped' and nothing is done for D, for every value of
\* clean_history.
C5_SkipWhenUpToDate ==
    InRun =>
      \A b \in Processed :
         NotDueForFull(b) /\ UpToDate(b) => rep[b].result = "skipped" /\ Untouched(b)
C5_Witness ==
    /\ InRun /\ clean_history
    /\ \E b \in Processed :
          NotDueForFull(b) /\ UpToDate(b) /\ rep[b].result = "skipped"

\* git work was done for the destination of b (the branch was neither skipped
\* nor given up before the replay)
Replayed(b) == rep[b].mode \in {"clean", "bulk", "step"}
\* one of the four conditions under which S->D is due for a full replay
FullReplayDue(b) ==
    \/ force_full
    \/ LoadedKey(b) \notin DOMAIN before.state.last_commits
    \/ b \notin DOMAIN before.state.synced_branches
    \/ before.state.synced_branches[b] # rep[b].dst

\* C6: with clean_history unset, a branch that is due for a full replay
\* (force_full, no last_commits entry, S not in synced_branches, or mapping
\* changed) is replicated without an incremental range base and with forced
\* pushes only.
C6_FullReplayWhenDue ==
    InRun =>
      \A b \in Processed :
         ~clean_history /\ Replayed(b) /\ FullReplayDue(b)
            => rep[b].base = 0 /\ AllForced(b)

\* C7: in full-replay mode the branch pushed to D is the history of source/S
\* up to the source tip, also when origin/D existed before; nothing of
\* origin/D is pushed back.
C7_FullReplayFromSource ==
    InRun =>
      \A b \in Processed :
         ~clean_history /\ rep[b].full_arg /\ rep[b].mode = "bulk"
            /\ rep[b].result = "synced"
            => dest[rep[b].dst] = SrcHist(rep[b].srcHead)

\* the replication of the next branch of the run under a given force_full
\* flag, no git command failing and no LFS or size threshold reached
Quiet == [large |-> FALSE, lfsPre |-> FALSE, lfsAt |-> 0, failAt |-> 0, failKind |-> "pick"]
ReplicateHead(cli_force_full) ==
    LET branch == Head(todo)
        mapped_branch == MapBranchName(branch, branch_map)
        is_full_sync == cli_force_full \/ sync_state.last_sync = 0
        is_full_arg == \/ is_full_sync
                       \/ branch \notin DOMAIN sync_state.synced_branches
                       \/ sync_state.synced_branches[branch] # mapped_branch
    IN  SyncBranch(branch, mapped_branch, is_full_arg, sync_state, src[branch],
                   dest[mapped_branch], ws, clean_history, cli_force_full, Quiet)

\* C8: from one and the same state before the first branch of a run (same
\* source, same destination, same loaded sync state), replicating with
\* force_full and without it leaves the destination branch with the same tree
\* whenever both replicate it ('synced').
C8_ForceFullSameTree ==
    pc = "branches" /\ todo # <<>> /\ Processed = {} =>
      LET forced == ReplicateHead(TRUE)
          plain == ReplicateHead(FALSE)
      IN  forced.result = "synced" /\ plain.result = "synced"
            => TreeOf(forced.dest) = TreeOf(plain.dest)

\* C9: every push made in clean-history or full-replay mode is forced, bulk
\* or per commit, also when the full replay was chosen with force_full unset;
\* every push made in incremental mode is plain.
C9_ForceIffFullOrClean ==
    InRun =>
      \A b \in Processed :
         /\ clean_history \/ rep[b].full => AllForced(b)
         /\ ~clean_history /\ ~rep[b].full => AllPlain(b)

\* C10: an incremental replication that finds origin/D at a head other than
\* last_commits[key] and ends 'synced' leaves D a descendant of that head, and
\* every commit it added carries the amended [SYNC] message with the original
\* SHA, bulk or commit by commit.
C10_DivergedReplayAmends ==
    InRun =>
      \A b \in Processed :
         ~clean_history /\ ~rep[b].full /\ rep[b].diverged /\ rep[b].result = "synced"
            => /\ IsPrefix(rep[b].destBefore, dest[rep[b].dst])
               /\ \A i \in (Len(rep[b].destBefore) + 1)..Len(dest[rep[b].dst]) :
                     dest[rep[b].dst][i].kind = "sync"

\* C11: once the detector has initialised LFS, no successful push holds, as a
\* regular blob, the binary file over lfs_file_threshold that the detector
\* found in the pushed commit; every commit of a commit-by-commit replay counts.
C11_NoBigBlobAfterLfsInit ==
    InRun =>
      \A b \in Processed :
         \A i \in DOMAIN rep[b].pushes :
            rep[b].pushes[i].ok => rep[b].pushes[i].big # "blob"

\* C12: with clean_history set and no git command failing for an outside
\* reason, every branch that is not skipped ends 'synced' with D on the
\* destination being one parentless commit that carries the [SYNC] message with
\* the original SHA of the source head and the files of the source head.
C12_CleanHistoryPublishesOrphan ==
    InRun /\ clean_history /\ faults = 0 =>
      \A b \in Processed :
         rep[b].result # "skipped" =>
            /\ rep[b].result = "synced"
            /\ Len(dest[rep[b].dst]) = 1
            /\ dest[rep[b].dst][1].kind = "clean"
            /\ dest[rep[b].dst][1].orig = rep[b].srcHead
            /\ dest[rep[b].dst][1].tree.p = SrcTree(rep[b].srcHead).p

\* C13: whenever a cherry-pick fails while a branch is replicated, bulk or
\* commit by commit, 'git cherry-pick --abort' is issued and the branch
\* outcome is 'failed'.
C13_PickFailureAbortsAndFails ==
    InRun =>
      \A b \in Processed :
         rep[b].pick # "ok" => rep[b].pick = "aborted" /\ rep[b].result = "failed"

AfterFailedWrite ==
    /\ InRun
    /\ before.prev.valid /\ before.prev.saved /\ ~before.prev.written
    /\ ~force_full

\* C15: after a run whose sync-state write failed, the next run
\* without force_full reports mode 'full' and replicates every branch in
\* full-replay mode, whatever state earlier runs had persisted.
C15_FullAfterFailedWrite ==
    AfterFailedWrite =>
      /\ report.mode = "full"
      /\ \A b \in Processed : rep[b].full_arg /\ rep[b].result # "skipped"

\* the finished run follows, with the same source heads and branch_map, a run
\* whose state write failed, and that failed write is the only failure of a
\* git command so far: the finished run itself met none
RecoveryRun ==
    /\ pc = "done"
    /\ before.prev.valid /\ before.prev.saved /\ ~before.prev.written
    /\ faults = 1
    /\ before.prev.src = src /\ before.prev.map = branch_map
\* at the start of the run the destination branch of b held the files of the
\* source head although the loaded state did not record that head
PushedButNotRecorded(b) ==
    /\ rep[b].destBefore # <<>>
    /\ TreeOf(rep[b].destBefore).p = SrcTree(rep[b].srcHead).p
    /\ ~UpToDate(b)

\* C16: when the destination holds the commits a run pushed for a branch while
\* the persisted state does not record them (the state write failed), a later
\* run without failures and with unchanged source ends with that branch
\* 'synced' and the state written.
C16_RecoversAfterLostState ==
    RecoveryRun =>
      \A b \in Processed :
         PushedButNotRecorded(b) => rep[b].result = "synced" /\ report.state_written

\* every git step made for b succeeded
ReplicatedOk(b) == rep[b].result = "synced" /\ ~PushFailed(b) /\ rep[b].pick = "ok"
FailedBranches == {b \in Processed : rep[b].result = "failed"}
SyncedBranches == {b \in Processed : rep[b].result = "synced"}

\* C17: at the end of sync_repository the status is 'failed' after a
\* repository-level error, otherwise 'success' when no branch outcome is
\* 'failed', 'partial_success' when some are 'synced' and some 'failed', and
\* 'failed' when some failed and none synced; and every branch that was neither
\* replicated successfully nor skipped is counted as failed.
C17_StatusFromOutcomes ==
    pc = "done" =>
      /\ report.status = IF report.error THEN "failed"
                         ELSE IF FailedBranches = {} THEN "success"
                         ELSE IF SyncedBranches # {} THEN "partial_success"
                         ELSE "failed"
      /\ ~report.error =>
            report.branches_failed =
               Cardinality({b \in Processed :
                               rep[b].result # "skipped" /\ ~ReplicatedOk(b)})

\* C18: a run in which a fetch (of source, of the source tags or of origin)
\* failed records the failure as a branch failure and is not aborted: all the
\* branches but the one the failure is recorded against are still replicated.
C18_FetchFailureKeepsRun ==
    pc = "done" /\ report.error =>
      /\ report.branches_failed >= 1
      /\ Cardinality(Processed) >= Cardinality(ToSync) - 1

\* the commits of origin/D that the replication of b put there
Published(b) ==
    {i \in DOMAIN dest[rep[b].dst] :
        \/ i > Len(rep[b].destBefore)
        \/ rep[b].destBefore[i] # dest[rep[b].dst][i]}
\* b is the only processed branch replicated to its destination branch
OwnDest(b) == \A c \in Processed : rep[c].dst = rep[b].dst => c = b

\* C19: within the replay of one branch, once add_original_hash is true - set
\* by the divergence found at the start or by the detector enabling LFS on a
\* commit - every later commit replayed for the branch carries the '[SYNC] ...
\* Original SHA' message.
C19_HashFlagStaysSet ==
    InRun /\ ~clean_history =>
      \A b \in Processed :
         OwnDest(b) /\ rep[b].mode # "none" =>
            /\ rep[b].diverged =>
                  \A i \in Published(b) : dest[rep[b].dst][i].kind = "sync"
            /\ \A i, j \in Published(b) :
                  i < j /\ dest[rep[b].dst][i].kind = "sync"
                    => dest[rep[b].dst][j].kind = "sync"

\* the detector enabled LFS while a branch of the run was replicated
DetectorEnabledLfs == \E b \in Processed : rep[b].lfs

\* C20: the report of a run has lfs_triggered = true exactly when the detector
\* enabled LFS during the replication of one of its branches.
C20_LfsTriggeredReported ==
    pc = "done" /\ ~report.error => (report.lfs_triggered <=> DetectorEnabledLfs)

\* the status sync_repository derives from the counters of the run
StatusOf(failed_count, synced_count) == IF failed_count = 0 THEN "success" ELSE IF synced_count > 0 THEN "partial_success" ELSE "failed"

\* C22: in a run that reaches the branch loop 'git push origin --tags' is issued
\* exactly once, after the last branch and before any state write (none while
\* branches are replicated, one from then on, and no state write without it);
\* whether it fails changes neither the status nor whether the state is written.
C22_TagsPushedOnceAfterBranches ==
    /\ pc = "branches" => report.tag_pushes = 0 /\ report.state_saves = 0
    /\ pc = "tags" => /\ report.tag_pushes = 1 /\ report.state_saves = 0
                      /\ todo = <<>> /\ Processed = ToSync
                      /\ state_commits = before.state_commits
    /\ pc = "done" => report.tag_pushes = IF report.error THEN 0 ELSE 1
    /\ pc = "done" /\ report.tag_pushes > 0 =>
          /\ report.tag_failures \in {0, 1}
          /\ report.status = StatusOf(report.branches_failed, report.branches_synced)
          /\ report.state_saves = IF report.branches_synced > 0 THEN 1 ELSE 0
C22_Witness ==
    /\ pc = "done" /\ report.tag_failures = 1
    /\ report.status = "success" /\ report.state_written

\* the source branches that are never replicated: the reserved name and the
\* names matched by an ignore pattern
Ignored == {"sync_state"} \cup IgnoreBranches
KeysOf(b) == {StateKey(b, d) : d \in DestNames}

\* C23: a source branch named sync_state or matched by an ignore pattern is
\* never passed to the replicator, whatever branch_map says about it: nothing
\* is done or pushed for it, it is in neither synced_branches nor last_commits
\* (in memory or persisted), and the report lists it in ignored_branches.
C23_IgnoredNeverReplicated ==
    \A b \in Ignored :
       /\ rep[b] = NoRep
       /\ b \notin Range(todo)
       /\ b \notin DOMAIN sync_state.synced_branches
       /\ b \notin DOMAIN remote_state.state.synced_branches
       /\ KeysOf(b) \cap DOMAIN sync_state.last_commits = {}
       /\ KeysOf(b) \cap DOMAIN remote_state.state.last_commits = {}
       /\ InRun /\ ~report.error /\ src[b] > 0 => b \in report.ignored_branches
C23_Witness ==
    /\ pc = "done" /\ report.state_written
    /\ report.ignored_branches = {"tmp", "sync_state"}
    /\ "tmp" \in DOMAIN branch_map /\ "sync_state" \in DOMAIN branch_map
    /\ dest[branch_map["tmp"]] = <<>>

\* C24: for every branch_map, branch replication never pushes to a destination
\* branch named sync_state, so that the destination's sync_state branch holds
\* no replicated commit: it carries sync_state.json only.
C24_StateBranchHoldsStateOnly ==
    /\ dest["sync_state"] = <<>>
    /\ InRun => \A b \in Processed :
                   rep[b].dst = "sync_state" => rep[b].pushes = <<>>

\* the loaded state maps b to another destination than the run does
MappingChanged(b) ==
    /\ b \in DOMAIN before.state.synced_branches
    /\ before.state.synced_branches[b] # rep[b].dst
OldDest(b) == before.state.synced_branches[b]
OldKey(b) == StateKey(b, OldDest(b))

\* C25: when branch_map has moved S from D to D' since the state was written,
\* the run replicates S to D' in full-replay mode with force pushes only, makes
\* no push to D, records synced_branches[S] = D' and last_commits[key(S, D')],
\* and leaves the last_commits entry of key(S, D) as it was.
C25_RemapReplaysInFull ==
    InRun =>
      \A b \in Processed :
         MappingChanged(b) =>
            /\ rep[b].full_arg /\ rep[b].result # "skipped"
            /\ dest[OldDest(b)] = before.dest[OldDest(b)]
            /\ Get(sync_state.last_commits, OldKey(b))
                  = Get(before.state.last_commits, OldKey(b))
            /\ rep[b].result = "synced" =>
                  /\ rep[b].pushes # <<>> /\ AllForced(b)
                  /\ sync_state.synced_branches[b] = rep[b].dst
                  /\ LoadedKey(b) \in DOMAIN sync_state.last_commits

\* a step of the branch loop, and the state key of the branch it replicates
BranchStep == pc = "branches" /\ todo # <<>> /\ todo' = Tail(todo)
StepKey == StateKey(Head(todo), MapBranchName(Head(todo), branch_map))
Entries(f, keys) == [k \in DOMAIN f \cap keys |-> f[k]]

\* C26: replicating one branch changes, of last_commits, at most the entry of
\* its own state key, and only when its outcome is 'synced'; an outcome
\* 'skipped' or 'failed' leaves last_commits and synced_branches as they were;
\* the entries of other branches are neither modified nor removed.
C26_OnlyOwnEntryChanges ==
    [][BranchStep =>
         LET b == Head(todo)
             others == (DOMAIN sync_state.last_commits
                          \cup DOMAIN sync_state'.last_commits) \ {StepKey}
         IN  /\ Entries(sync_state'.last_commits, others)
                   = Entries(sync_state.last_commits, others)
             /\ DOMAIN sync_state.last_commits \subseteq DOMAIN sync_state'.last_commits
             /\ Entries(sync_state'.synced_branches, SrcBranches \ {b})
                   = Entries(sync_state.synced_branches, SrcBranches \ {b})
             /\ rep'[b].result # "synced" => sync_state' = sync_state]_vars
C26_Witness ==
    /\ pc = "branches"
    /\ \E b, c \in Processed :
          /\ rep[b].result = "synced" /\ rep[c].result \in {"skipped", "failed"}
          /\ LoadedKey(c) \in DOMAIN sync_state.last_commits
          /\ sync_state.last_commits[LoadedKey(b)] = rep[b].srcHead

\* C27: in a run, every source branch whose outcome is 'synced' is a key of
\* synced_branches, mapped to the destination used in the run, and
\* synced_branches keeps every key it held when the run started; the state the
\* run writes holds the same synced_branches.
C27_SyncedBranchesGrow ==
    InRun =>
      /\ \A b \in Processed :
            rep[b].result = "synced" =>
               /\ b \in DOMAIN sync_state.synced_branches
               /\ sync_state.synced_branches[b] = rep[b].dst
      /\ DOMAIN before.state.synced_branches \subseteq DOMAIN sync_state.synced_branches
      /\ pc = "done" /\ report.state_written =>
            remote_state.state.synced_branches = sync_state.synced_branches
C27_Witness ==
    /\ pc = "done" /\ report.state_written
    /\ \E b, c \in SrcBranches :
          /\ b # c /\ rep[b].result = "synced"
          /\ c \in DOMAIN before.state.synced_branches
          /\ b \notin DOMAIN before.state.synced_branches
          /\ rep[c].result # "synced"

\* ---- C28 ----
\* the read of the persisted state met something other than a complete document
ReadFailed == before.read \in {"absent", "nofile", "malformed", "incomplete", "fault"}

\* C28: reading the sync state never fails the run: when the sync_state
\* branch or sync_state.json is absent, or the read raises (fetch, malformed
\* or incomplete JSON), the run uses the empty state and replicates the
\* repository in full mode
C28_StateReadNeverFailsRun ==
    InRun /\ ReadFailed
        => /\ before.state = EmptyState
           /\ report.mode = "full"
           /\ is_full_run
           /\ (pc = "done" /\ report.error => before.read # "incomplete")

\* ------------------------------------------------------------ URLs
\* A URL is a sequence of pieces of text: the scheme with its '://', the
\* credentials before an '@', the repository path, a '.git' suffix, slashes.
\* "cred" is a user:password pair written into a configured URL, "pw" a
\* configured password of unreserved characters, "p@w" one with a reserved
\* character and "p%40w" its percent-encoding.
MaxSlash == 1

\* the variables of the replication, which the study of one call leaves alone
mainvars == <<src, dest, remote_state, state_commits, ws, force_full, clean_history, branch_map, pc, runs, envs, faults, todo, sync_state, is_full_run, report, rep, before, prev>>

\* the replication at rest while one call is studied
Parked ==
    /\ Begin([b \in SrcBranches |-> IF b = "main" THEN 1 ELSE 0], {[b \in {} |-> "main"]}, FALSE)
    /\ ~clean_history
    /\ remote_state = NoRemoteState
    /\ dest["main"] = <<>>

\* str.lower on one piece
Lower(t) ==
    CASE t = "HTTPS://" -> "https://"
      [] t = "A" -> "a"
      [] t = ".GIT" -> ".git"
      [] OTHER -> t

\* url.rstrip('/')
RECURSIVE RStripSlash(_)
RStripSlash(url) ==
    IF url # <<>> /\ url[Len(url)] = "/"
    THEN RStripSlash(SubSeq(url, 1, Len(url) - 1))
    ELSE url

\* _normalize_url: strip trailing slashes, lower the case, drop one '.git'
NormalizeUrl(url) ==
    IF url = <<>> THEN <<>>
    ELSE LET stripped == RStripSlash(url)
             normalized == [i \in 1..Len(stripped) |-> Lower(stripped[i])]
         IN  IF normalized # <<>> /\ normalized[Len(normalized)] = ".git"
             THEN SubSeq(normalized, 1, Len(normalized) - 1)
             ELSE normalized

\* _remove_auth_from_url: for a URL that starts with 'http://' or 'https://'
\* as written, drop what precedes the last '@'
RemoveAuthFromUrl(url) ==
    IF url # <<>> /\ url[1] = "https://" /\ \E i \in 2..Len(url) : url[i] = "@"
    THEN LET last == CHOOSE i \in 2..Len(url) :
                         url[i] = "@" /\ \A j \in (i + 1)..Len(url) : url[j] # "@"
         IN  <<"https://">> \o SubSeq(url, last + 1, Len(url))
    ELSE url

\* urllib.quote(password, safe='')
Quote(password) == IF password = "p@w" THEN "p%40w" ELSE password

\* _add_auth_to_url: inject the encoded credentials into an http(s) URL
AddAuthToUrl(url, password) ==
    IF url = <<>> \/ url[1] # "https://" THEN url
    ELSE IF password = "" THEN url
    ELSE <<"https://", Quote(password), "@">> \o Tail(url)

Slashes(n) == [i \in 1..n |-> "/"]

\* the dest_url values a configuration file may hold for the repositories a
\* and b
ConfiguredUrls ==
    { <<scheme>> \o cred \o <<name>> \o suffix \o Slashes(n) :
        scheme \in {"https://", "HTTPS://"}, cred \in {<<>>, <<"cred", "@">>},
        name \in {"a", "A", "b"}, suffix \in {<<>>, <<".git">>, <<".GIT">>},
        n \in 0..MaxSlash }

\* repo.auth_pass ("": none configured)
Passwords == {"", "pw", "p@w"}

\* remote.origin.url of the work directory: what the clone or the set-url of
\* an earlier run stored; <<>> when the directory does not exist
StoredUrls == {<<>>} \cup {AddAuthToUrl(u, p) : u \in ConfiguredUrls, p \in Passwords}

\* the comparison of _setup_unified_work_dir (lines 617, 620)
SameDestination(origin_url, dest_url) ==
    NormalizeUrl(RemoveAuthFromUrl(origin_url)) = NormalizeUrl(dest_url)

\* _setup_unified_work_dir without a work directory: the clone, and the
\* handler of the function when the clone fails. _run_git_command raises
\* "Git command failed: " followed by the command as it was run.
CloneWorkDir(dest_url, password, cloneOk) ==
    LET dest_url_with_auth == AddAuthToUrl(dest_url, password)
        cloning == <<"Cloning destination repository:">> \o dest_url
    IN  IF cloneOk
        THEN [ok |-> TRUE, origin |-> dest_url_with_auth,
              log |-> <<cloning, <<"Unified work directory created">>,
                        <<"Unified work directory setup completed">>>>]
        ELSE [ok |-> FALSE, origin |-> <<>>,
              log |-> <<cloning,
                        <<"Failed to setup unified work directory:",
                          "Git command failed:", "git clone">> \o dest_url_with_auth>>]

\* _setup_unified_work_dir: whether the stored and the configured URL were
\* compared and found the same, the origin URL left, and the lines logged
SetupWorkDir(origin_url, dest_url, password, cloneOk, setUrlOk) ==
    LET dest_url_with_auth == AddAuthToUrl(dest_url, password)
        clone == CloneWorkDir(dest_url, password, cloneOk)
        verifying == <<"Verifying existing unified work directory">>
    IN  IF origin_url = <<>>
        THEN [compared |-> FALSE, same |-> FALSE, ok |-> clone.ok,
              origin |-> clone.origin, log |-> clone.log]
        ELSE IF ~SameDestination(origin_url, dest_url)
        THEN [compared |-> TRUE, same |-> FALSE, ok |-> clone.ok, origin |-> clone.origin,
              log |-> <<verifying,
                        <<"Destination repository mismatch. Expected:">> \o dest_url
                            \o <<"Found:">> \o origin_url,
                        <<"Recreated work directory">>>> \o clone.log]
        ELSE IF dest_url_with_auth # origin_url /\ ~setUrlOk
        THEN [compared |-> TRUE, same |-> TRUE, ok |-> clone.ok, origin |-> clone.origin,
              log |-> <<verifying,
                        <<"Work directory verification failed:", "Git command failed:",
                          "git remote set-url origin">> \o dest_url_with_auth,
                        <<"Recreating work directory">>>> \o clone.log]
        ELSE IF dest_url_with_auth # origin_url
        THEN [compared |-> TRUE, same |-> TRUE, ok |-> TRUE, origin |-> dest_url_with_auth,
              log |-> <<verifying,
                        <<"Updated origin remote with authentication:">> \o dest_url,
                        <<"Unified work directory setup completed">>>>]
        ELSE [compared |-> TRUE, same |-> TRUE, ok |-> TRUE, origin |-> origin_url,
              log |-> <<verifying, <<"Unified work directory setup completed">>>>]

\* one call of _setup_unified_work_dir
SetupWorkDirCall(cloneOk, setUrlOk) ==
    /\ call.at = "start"
    /\ call' = [call EXCEPT !.at = "done",
                            !.result = SetupWorkDir(call.origin_url, call.dest_url,
                                                    call.password, cloneOk, setUrlOk)]
    /\ UNCHANGED mainvars

InitWorkDir ==
    /\ Parked
    /\ call \in [at : {"start"}, origin_url : StoredUrls, dest_url : ConfiguredUrls,
                 password : Passwords,
                 result : {[compared |-> FALSE, same |-> FALSE, ok |-> FALSE,
                            origin |-> <<>>, log |-> <<>>]}]
NextWorkDir == \E cloneOk, setUrlOk \in BOOLEAN : SetupWorkDirCall(cloneOk, setUrlOk)
SpecWorkDir == InitWorkDir /\ [][NextWorkDir]_vars

\* ---- C29 ----
\* the lines of the log that hold the configured password
LeakingLines == {i \in 1..Len(call.result.log) : call.password \in Range(call.result.log[i])}

\* C29: no log line emitted during a run contains a configured password: the
\* failing clone and 'remote set-url' commands and the stored origin URL of
\* a workspace mismatch are logged with the credentials removed
C29_NoPasswordInLog ==
    call.at = "done" /\ call.password # "" => LeakingLines = {}

\* ---- C30 ----
\* a URL without embedded credentials, trailing slashes, a trailing '.git'
\* and letter case, whatever the case its scheme is written in
Stripped(url) ==
    LET lowered == [i \in 1..Len(url) |-> Lower(url[i])]
    IN  NormalizeUrl(RemoveAuthFromUrl(lowered))

\* C30: the workspace check treats the stored origin URL and the configured
\* dest_url as the same destination iff they are equal after removing
\* embedded credentials, a trailing slash, a trailing '.git' and letter case,
\* both being put through the same stripping
C30_UrlComparisonInvariant ==
    call.at = "done" /\ call.result.compared
        => (call.result.same <=> Stripped(call.origin_url) = Stripped(call.dest_url))

\* ------------------------------------------------------------ large-file detector
MaxFiles == 2
MaxSize == 2

\* a candidate file: its size in MB, whether it exists at the ref inspected,
\* and whether _is_file_lfs_tracked finds an LFS filter for it
Files == [size : 0..MaxSize, exists : BOOLEAN, tracked : BOOLEAN]
CandidateLists == UNION {[1..n -> Files] : n \in 0..MaxFiles}

\* the detector before its loop
NoLfs == [lfs_needed |-> FALSE, returned |-> FALSE, initialized |-> FALSE, installs |-> 0, rules |-> {}]

\* the loop body with git lfs install failing yet the loop going on
InspectFileGoesOn(acc, rel, file, threshold, installOk, trackOk) ==
    IF ~file.exists \/ ~(file.size >= threshold) THEN acc
    ELSE LET set == IF acc.lfs_needed THEN acc
                    ELSE [acc EXCEPT !.lfs_needed = installOk, !.initialized = installOk,
                                     !.installs = @ + 1]
         IN  IF ~file.tracked /\ rel \in trackOk
             THEN [set EXCEPT !.rules = @ \cup {rel}]
             ELSE set

\* steps 2 and 3 of _check_and_setup_lfs for the candidate rel: skip a file
\* that is gone or under the threshold; at the first one that is not, run
\* _setup_lfs_for_repo and return False when it fails; track the file unless
\* it is tracked already, a failing 'git lfs track' being logged only
InspectFile(acc, rel, file, threshold, installOk, trackOk) ==
    IF acc.returned \/ ~file.exists \/ ~(file.size >= threshold) THEN acc
    ELSE IF ~acc.lfs_needed /\ ~installOk
    THEN [acc EXCEPT !.returned = TRUE, !.installs = @ + 1]
    ELSE LET set == IF acc.lfs_needed THEN acc
                    ELSE [acc EXCEPT !.lfs_needed = TRUE, !.initialized = TRUE,
                                     !.installs = @ + 1]
         IN  IF ~file.tracked /\ rel \in trackOk
             THEN [set EXCEPT !.rules = @ \cup {rel}]
             ELSE set

\* the loop over the candidates, from the candidate i on
RECURSIVE InspectFrom(_, _, _, _, _, _)
InspectFrom(acc, candidates, i, threshold, installOk, trackOk) ==
    IF i > Len(candidates) THEN acc
    ELSE InspectFrom(InspectFile(acc, i, candidates[i], threshold, installOk, trackOk), candidates, i + 1, threshold, installOk, trackOk)

\* _check_and_setup_lfs: the value returned, whether git lfs install
\* succeeded and how often it ran, the files given a tracking rule, and
\* whether 'git add .gitattributes' was run and succeeded
CheckAndSetupLfs(candidates, threshold, installOk, trackOk, stageOk) ==
    LET acc == InspectFrom(NoLfs, candidates, 1, threshold, installOk, trackOk)
        staging == ~acc.returned /\ acc.lfs_needed
    IN  [result |-> ~acc.returned /\ acc.lfs_needed,
         initialized |-> acc.initialized, installs |-> acc.installs, rules |-> acc.rules,
         stage_run |-> staging, staged |-> staging /\ stageOk]

\* one call of _check_and_setup_lfs
CheckAndSetupLfsCall ==
    /\ call.at = "start"
    /\ call' = [call EXCEPT !.at = "done",
                            !.out = CheckAndSetupLfs(call.candidates, call.threshold,
                                                     call.installOk, call.trackOk,
                                                     call.stageOk)]
    /\ UNCHANGED mainvars

InitDetector ==
    /\ Parked
    /\ call \in [at : {"start"}, candidates : CandidateLists, threshold : 1..MaxSize,
                 installOk : BOOLEAN, trackOk : SUBSET (1..MaxFiles), stageOk : BOOLEAN,
                 out : {[result |-> FALSE, initialized |-> FALSE, installs |-> 0,
                         rules |-> {}, stage_run |-> FALSE, staged |-> FALSE]}]
NextDetector == CheckAndSetupLfsCall
SpecDetector == InitDetector /\ [][NextDetector]_vars

\* ---- C21 ----
\* the candidates that exist and reach the file threshold
Reaching == {i \in 1..Len(call.candidates) : call.candidates[i].exists /\ call.candidates[i].size >= call.threshold}

\* C21: the detector returns true iff, during the call, LFS was initialized
\* or a new tracking rule was added; when 'git lfs install' fails on the
\* first candidate over the threshold it returns false at once, adds no rule
\* and does not stage .gitattributes; when no candidate reaches the
\* threshold it returns false without initializing LFS
C21_DetectorReturn ==
    call.at = "done" =>
        /\ call.out.result <=> (call.out.initialized \/ call.out.rules # {})
        /\ Reaching # {} /\ ~call.installOk
             => /\ ~call.out.result
                /\ call.out.installs = 1
                /\ call.out.rules = {}
                /\ ~call.out.stage_run
        /\ Reaching = {}
             => /\ ~call.out.result
                /\ call.out.installs = 0
                /\ ~call.out.initialized

\* the install failed with two untracked candidates over the threshold whose
\* tracking would have succeeded
C21_Witness ==
    /\ call.at = "done"
    /\ ~call.installOk
    /\ Cardinality(Reaching) = 2
    /\ \A i \in Reaching : ~call.candidates[i].tracked /\ i \in call.trackOk

\* ---- C31 ----
\* the candidates that exist and strictly exceed the file threshold
Exceeding == {i \in 1..Len(call.candidates) : call.candidates[i].exists /\ call.candidates[i].size > call.threshold}

\* C31: the detector acts on a candidate only when its size strictly exceeds
\* lfs_file_threshold_mb: with no such candidate, one whose size equals the
\* threshold included, it neither initializes LFS nor adds a tracking rule
C31_EqualSizeNotActedOn ==
    call.at = "done" /\ Exceeding = {}
        => call.out.installs = 0 /\ call.out.rules = {} /\ ~call.out.result

\* ------------------------------------------------------------ one branch
\* the histories origin/main can have after main was replicated up to its
\* commit k: the source commits themselves, or cherry-picks on top of an
\* earlier replication
DestHistories(k) == {SrcHist(k)} \cup {PickRange(SrcHist(j), j + 1, k) : j \in 1..(k - 1)}

\* the state that records main -> main replicated up to the commit k
RecordedAt(k) == [last_sync |-> 1, synced_branches |-> [b \in {"main"} |-> "main"], last_commits |-> Put(EmptyMap, StateKey("main", "main"), k)]

\* what a run can find when it comes to replicate main -> main: nothing
\* replicated yet (destination branch absent or made by somebody else), or
\* main replicated up to a commit k and recorded so
BranchStarts ==
    {[destD |-> d, st |-> EmptyState] : d \in {<<>>, <<ForeignCommit(<<>>)>>}}
    \cup UNION {{[destD |-> d, st |-> RecordedAt(k)] : d \in DestHistories(k)} : k \in 1..MaxCommit}

\* one call of _sync_branch for main -> main
SyncBranchCall ==
    /\ call.at = "start"
    /\ call' = [call EXCEPT !.at = "done",
                            !.out = SyncBranch("main", "main", call.is_full_arg, call.start.st,
                                               call.n, call.start.destD, call.w, call.clean,
                                               call.config_force_full, call.in)]
    /\ UNCHANGED mainvars

InitBranch ==
    /\ Parked
    /\ call \in {c \in [at : {"start"}, n : 1..MaxCommit, start : BranchStarts,
                        is_full_arg : BOOLEAN, clean : BOOLEAN, config_force_full : BOOLEAN,
                        in : Inputs,
                        w : {[exists |-> TRUE, local |-> {"main"}, head |-> "main"]},
                        out : {NoSync("none", <<>>, [exists |-> FALSE, local |-> {}, head |-> "none"], EmptyState, 0, FALSE)}] :
                   /\ Occurs(c.in, c.n, c.clean)
                   /\ Get(c.start.st.last_commits, StateKey("main", "main")) <= c.n
                   /\ c.start.st = EmptyState => c.is_full_arg}
NextBranch == SyncBranchCall
SpecBranch == InitBranch /\ [][NextBranch]_vars

\* ---- C32 ----
\* C32: when the probed size does not exceed lfs_total_threshold_mb the whole
\* range of the branch is applied with a single cherry-pick call and a single
\* push, whether or not the detector added tracking rules; commit-by-commit
\* replay is used exactly when the probed size exceeds the threshold
C32_BulkUnlessLarge ==
    call.at = "done" /\ call.out.mode \in {"bulk", "step"}
        => /\ call.out.mode = "step" <=> call.in.large
           /\ ~call.in.large => Len(call.out.pushes) <= 1

\* ---- C33 ----
\* the source commits behind the commits of a history, in its order
Origs(h) == [i \in 1..Len(h) |-> h[i].orig]
Ascending(s) == \A i \in 1..(Len(s) - 1) : s[i] < s[i + 1]
\* the first commit a commit-by-commit replay of the call processes
FirstStep ==
    IF call.out.base # 0 /\ ~call.out.full THEN call.out.base + 1 ELSE 1

\* C33: in commit-by-commit replay the commits are processed ancestor first,
\* a commit is cherry-picked only after the one before it was pushed, and at
\* the first commit whose cherry-pick, amend or push fails no later commit is
\* cherry-picked or pushed
C33_StepReplayInOrder ==
    call.at = "done" /\ call.out.mode = "step" =>
        /\ \A i \in 1..(Len(call.out.pushes) - 1) : call.out.pushes[i].ok
        /\ Len(call.out.pushes) <= call.n - FirstStep + 1
        /\ call.out.dest # call.start.destD => Ascending(Origs(call.out.dest))
        /\ call.in.failAt >= FirstStep /\ call.out.pick = "left"
             => Len(call.out.pushes) = call.in.failAt - FirstStep
        /\ \A i \in 1..Len(call.out.pushes) :
             ~call.out.pushes[i].ok => i = Len(call.out.pushes)

\* a replay of two commits stopped at the first of them
C33_Witness ==
    /\ call.at = "done"
    /\ call.out.mode = "step"
    /\ call.n - FirstStep + 1 >= 2
    /\ Len(call.out.pushes) = 1
    /\ ~call.out.pushes[1].ok

\* ------------------------------------------------------------ work directory of a branch
\* The git commands _sync_branch runs in the work directory for a branch that
\* is not skipped, in their order, for the three modes; 'reset --hard HEAD'
\* is run when 'git rev-parse --verify HEAD' succeeds.
Commands(mode, head_exists) ==
    LET prep == (IF head_exists THEN <<"reset --hard HEAD">> ELSE <<>>) \o <<"clean -fdx">>
        replay == <<"checkout --force", "cherry-pick", "push">>
    IN  CASE mode = "clean" ->
               <<"checkout --orphan", "rm -rf .", "checkout -- .", "add .", "commit",
                 "branch -D", "branch -m", "push">>
          [] mode = "full" -> <<"branch -D", "branch -d -r">> \o prep \o replay
          [] OTHER -> prep \o replay

\* the leftovers of an interrupted run in the work directory, and where they
\* have got to: untracked files, changes to tracked files, the index, the
\* commit made, the destination
NoLeftovers == [untracked |-> FALSE, modified |-> FALSE, staged |-> FALSE, committed |-> FALSE, pushed |-> FALSE]

\* the effect of one command on the leftovers; ok says whether the command
\* succeeded, the failure of reset and clean being logged only
Effect(cmd, ok, wd) ==
    CASE cmd = "reset --hard HEAD" -> IF ok THEN [wd EXCEPT !.modified = FALSE, !.staged = FALSE] ELSE wd
      [] cmd = "clean -fdx" -> IF ok THEN [wd EXCEPT !.untracked = FALSE] ELSE wd
      [] cmd = "rm -rf ." -> [wd EXCEPT !.modified = FALSE, !.staged = FALSE]
      [] cmd = "checkout --force" -> [wd EXCEPT !.modified = FALSE, !.staged = FALSE]
      [] cmd = "add ." -> [wd EXCEPT !.staged = @ \/ wd.untracked \/ wd.modified, !.untracked = FALSE, !.modified = FALSE]
      [] cmd = "commit" -> [wd EXCEPT !.committed = wd.staged, !.staged = FALSE]
      [] cmd = "push" -> [wd EXCEPT !.pushed = wd.committed]
      [] OTHER -> wd

\* the next command of the branch is run
RunCommand(ok) ==
    /\ call.at = "run"
    /\ ok \/ call.program[Len(call.done) + 1] \in {"reset --hard HEAD", "clean -fdx"}
    /\ call' = [call EXCEPT !.done = Append(@, call.program[Len(@) + 1]),
                            !.wd = Effect(call.program[Len(call.done) + 1], ok, @),
                            !.at = IF Len(call.done) + 1 = Len(call.program) THEN "done" ELSE "run"]
    /\ UNCHANGED mainvars

InitPrep ==
    /\ Parked
    /\ \E mode \in {"clean", "full", "incremental"}, head_exists \in BOOLEAN, untracked, modified, staged \in BOOLEAN :
         call = [at |-> "run", mode |-> mode, program |-> Commands(mode, head_exists), done |-> <<>>,
                 wd |-> [NoLeftovers EXCEPT !.untracked = untracked, !.modified = modified /\ head_exists, !.staged = staged /\ head_exists]]
NextPrep == \E ok \in BOOLEAN : RunCommand(ok)
SpecPrep == InitPrep /\ [][NextPrep]_vars

\* ---- C34 ----
\* the commands that check out, cherry-pick or commit
Working == {"checkout --orphan", "checkout -- .", "checkout --force", "cherry-pick", "add .", "commit"}
\* the commands run so far hold cmd before any working command
RunFirst(cmd) ==
    \A i \in 1..Len(call.done) :
        call.done[i] \in Working => \E j \in 1..(i - 1) : call.done[j] = cmd

\* C34: in all three modes the replication of a branch runs 'reset --hard
\* HEAD' (when HEAD exists) and 'git clean -fdx' before any checkout,
\* cherry-pick or commit, so that leftovers of an interrupted run do not
\* reach a pushed commit
C34_PrepBeforeWork ==
    /\ RunFirst("clean -fdx")
    /\ "reset --hard HEAD" \in Range(call.program) => RunFirst("reset --hard HEAD")
    /\ ~call.wd.pushed

\* ------------------------------------------------------------ work directory set-up
MaxDepth == 3

\* the work directory on disk: whether it exists, and the URLs of its remotes
\* origin and source (<<>>: no such remote)
NoDir == [exists |-> FALSE, origin |-> <<>>, source |-> <<>>]

\* shutil.rmtree that leaves the directory where it is
RemoveTreeKeeps(dir) == dir

\* shutil.rmtree(work_dir)
RemoveTree(dir) == NoDir

\* the configured URLs used for the set-up: no trailing slash, repositories a and b
SetupUrls == {u \in ConfiguredUrls : u[Len(u)] \notin {"/", ".GIT", "A"}}
SourceUrls == {<<"https://", "s">>, <<"https://", "s", ".git">>, <<"https://", "cred", "@", "s">>}

\* what the directory can hold when a run starts: nothing, or the clone of an
\* earlier run made with some configuration, its source remote possibly missing
SetupDirs ==
    {NoDir} \cup {[exists |-> TRUE, origin |-> AddAuthToUrl(u, p), source |-> s] :
                    u \in SetupUrls, p \in {"", "pw"}, s \in SourceUrls \cup {<<>>}}

\* the comparison of the source remote (lines 634-635)
SameSource(source_url, configured) ==
    NormalizeUrl(RemoveAuthFromUrl(source_url)) = NormalizeUrl(configured)

\* one invocation of _setup_unified_work_dir up to its return or its
\* recursive call. f says which commands succeed: clone, get (reading
\* remote.origin.url), set (set-url origin), add (the commands on the source
\* remote), rm (shutil.rmtree).
SetupBody(dir, dest_url, source_url, password, f) ==
    LET with_auth == AddAuthToUrl(dest_url, password)
        return(ok, d, path) == [recurse |-> FALSE, ok |-> ok, dir |-> d, path |-> path]
        \* the handler of lines 644-650, and the outer one when rmtree raises
        recreate(d) == IF f.rm THEN [recurse |-> TRUE, ok |-> FALSE, dir |-> RemoveTree(d), path |-> "recreate"]
                       ELSE return(FALSE, d, "verify")
        updated == [dir EXCEPT !.origin = with_auth]
    IN  IF ~dir.exists
        THEN IF ~f.clone THEN return(FALSE, dir, "clone")
             ELSE IF ~f.add
                  THEN return(FALSE, [exists |-> TRUE, origin |-> with_auth, source |-> <<>>], "clone")
             ELSE return(TRUE, [exists |-> TRUE, origin |-> with_auth, source |-> source_url], "clone")
        ELSE IF ~f.get THEN recreate(dir)
        ELSE IF ~SameDestination(dir.origin, dest_url) THEN recreate(dir)
        ELSE IF with_auth # dir.origin /\ ~f.set THEN recreate(dir)
        ELSE IF dir.source # <<>> /\ SameSource(dir.source, source_url)
             THEN return(TRUE, updated, "verify")
        ELSE IF ~f.add THEN recreate(updated)
        ELSE return(TRUE, [updated EXCEPT !.source = source_url], "verify")

\* one invocation of _setup_unified_work_dir runs
SetupInvocation ==
    /\ call.at = "enter"
    /\ \E f \in [clone : BOOLEAN, get : BOOLEAN, set : BOOLEAN, add : BOOLEAN, rm : BOOLEAN] :
         \E r \in {SetupBody(call.dir, call.dest_url, call.source_url, call.password, f)} :
            /\ r.recurse => call.depth < MaxDepth
            /\ call' = [call EXCEPT !.dir = r.dir,
                                    !.depth = IF r.recurse THEN @ + 1 ELSE @,
                                    !.at = IF r.recurse THEN "enter" ELSE "done",
                                    !.ok = r.ok,
                                    !.path = r.path]
    /\ UNCHANGED mainvars

InitSetup ==
    /\ Parked
    /\ call \in [at : {"enter"}, depth : {0}, dir : SetupDirs, dest_url : SetupUrls,
                 source_url : SourceUrls, password : {"", "pw"}, ok : {FALSE}, path : {"none"}]
NextSetup == SetupInvocation
SpecSetup == InitSetup /\ [][NextSetup]_vars /\ WF_vars(NextSetup)

\* ---- C35 ----
\* the recursion of the set-up is at most one deep and its inner invocation
\* takes the fresh-clone path; a set-up that returns true leaves remotes that
\* normalize to the configured URLs
SetupSound ==
    /\ call.depth <= 1
    /\ call.at = "done" /\ call.depth = 1 => call.path = "clone"
    /\ call.at = "done" /\ call.ok
         => /\ call.dir.exists
            /\ Stripped(call.dir.origin) = Stripped(call.dest_url)
            /\ Stripped(call.dir.source) = Stripped(call.source_url)

\* C35: workspace set-up terminates on every input, with a recursion at most
\* one deep whose inner invocation takes the fresh-clone path; when it
\* returns true the stored origin URL normalizes to dest_url and the source
\* remote URL to source_url
C35_SetupTerminates == []SetupSound /\ <>(call.at = "done")

\* a set-up that found another destination in the directory, deleted it,
\* recursed and cloned
C35_Witness ==
    /\ call.at = "done"
    /\ call.depth = 1
    /\ call.ok
    /\ call.path = "clone"

\* ---- C36 ----
\* every branch recorded as synced has its last commit recorded
RangeBaseRecorded(st) ==
    \A s \in DOMAIN st.synced_branches :
        StateKey(s, st.synced_branches[s]) \in DOMAIN st.last_commits

\* C36: in every state reachable by runs of the tool, synced_branches[S] = D
\* implies that last_commits has an entry for the state key of (S, D), in
\* memory and as persisted; hence a branch replicated without a full sync
\* has a range base, and the single-commit cherry-pick taken when there is
\* neither a last commit nor a full sync is never reached
C36_RangeBaseDefined ==
    /\ RangeBaseRecorded(sync_state)
    /\ RangeBaseRecorded(remote_state.state)
    /\ \A b \in SrcBranches :
         rep[b].mode \in {"bulk", "step"} /\ ~rep[b].full => rep[b].base # 0

\* a branch was replicated incrementally from its recorded last commit
C36_Witness ==
    \E b \in SrcBranches :
        /\ rep[b].result = "synced"
        /\ rep[b].mode = "bulk"
        /\ ~rep[b].full
        /\ rep[b].base # 0
        /\ b \in DOMAIN sync_state.synced_branches

\* ------------------------------------------------------------ two writers of the state
MaxWrites == 2
Writers == {1, 2}
\* the contents sync_state.json can be given
Contents == {"x", "y"}

\* a writer between its runs
IdleWriter == [pc |-> "idle", local |-> <<>>, writes |-> 0, last |-> "none"]

\* the commit a writer makes on top of the history it fetched
StateCommit(w, k, content, base) ==
    [by |-> w, n |-> k, content |-> content,
     parent |-> IF base = <<>> THEN <<>> ELSE <<base[Len(base)].by, base[Len(base)].n>>]

\* _push_remote_sync_state up to its commit: fetch origin, check out
\* origin/sync_state (an orphan branch when there is none), write
\* sync_state.json and commit it; without a change to the file it returns
WriterCommits(w, content) ==
    /\ call.at = "writers"
    /\ call.writer[w].pc = "idle"
    /\ call.writer[w].writes < MaxWrites
    /\ LET base == call.remote
           unchanged == base # <<>> /\ base[Len(base)].content = content
           k == call.writer[w].writes + 1
       IN  call' = [call EXCEPT !.writer[w] =
                       IF unchanged
                       THEN [@ EXCEPT !.writes = k, !.last = "unchanged"]
                       ELSE [pc |-> "committed", local |-> Append(base, StateCommit(w, k, content, base)),
                             writes |-> k, last |-> "none"]]
    /\ UNCHANGED mainvars

\* 'git push origin sync_state' of the commit made; _save_sync_state logs a
\* rejected or failed push and goes on
WriterPushes(w, pushOk) ==
    /\ call.at = "writers"
    /\ call.writer[w].pc = "committed"
    /\ LET accepted == pushOk /\ PushAccepted(call.writer[w].local, call.remote, FALSE)
       IN  call' = [call EXCEPT !.remote = IF accepted THEN call.writer[w].local ELSE @,
                                !.writer[w] = [@ EXCEPT !.pc = "idle",
                                                        !.last = IF accepted THEN "saved" ELSE "rejected"]]
    /\ UNCHANGED mainvars

InitWriters ==
    /\ Parked
    /\ call = [at |-> "writers", remote |-> <<>>, writer |-> [w \in Writers |-> IdleWriter]]
NextWriters ==
    \/ \E w \in Writers, content \in Contents : WriterCommits(w, content)
    \/ \E w \in Writers, pushOk \in BOOLEAN : WriterPushes(w, pushOk)
SpecWriters == InitWriters /\ [][NextWriters]_vars

\* ---- C37 ----
\* the remote branch changes only by one commit added on top of its head,
\* made by a writer whose fetched history is the remote one
OnlyFastForward ==
    call'.remote # call.remote
        => \E w \in Writers :
              /\ call.writer[w].pc = "committed"
              /\ call'.remote = call.writer[w].local
              /\ SubSeq(call'.remote, 1, Len(call.remote)) = call.remote
              /\ Len(call'.remote) = Len(call.remote) + 1
              /\ call'.writer[w].last = "saved"

\* every commit of the remote branch has the commit before it as its parent,
\* and the commit of a writer whose push was rejected is not on the branch
ParentsChained ==
    /\ \A i \in 1..Len(call.remote) :
          call.remote[i].parent = IF i = 1 THEN <<>>
                                  ELSE <<call.remote[i - 1].by, call.remote[i - 1].n>>
    /\ \A w \in Writers :
          call.writer[w].last = "rejected"
              => \A i \in 1..Len(call.remote) :
                    ~(call.remote[i].by = w /\ call.remote[i].n = call.writer[w].writes)

\* C37: when two runs with their own workspaces interleave, the sync-state
\* push is never forced: a writer whose fetched origin/sync_state is stale at
\* push time is rejected and leaves its state unpersisted, so every commit on
\* the remote sync_state branch has the previous remote head as its parent
\* and no persisted commit is dropped
C37_StatePushNeverForced == [][OnlyFastForward]_vars /\ []ParentsChained

\* a writer was rejected because the other one pushed after its fetch
C37_Witness ==
    \E w \in Writers :
        /\ call.writer[w].last = "rejected"
        /\ call.remote # <<>>
        /\ call.remote[Len(call.remote)].by # w
        /\ call.writer[w].local # <<>>
        /\ ~IsPrefix(call.remote, call.writer[w].local)

\* ---- C38 ----
\* C38: _sync_branch returns one of 'synced', 'skipped', 'failed' and never
\* raises, so at the end of the branch loop of a repository synced + skipped
\* + failed equals the number of non-ignored source branches, each branch
\* being counted once
C38_EveryBranchCounted ==
    pc \in {"tags", "done"} /\ ~report.error
        => /\ report.branches_synced + report.branches_skipped + report.branches_failed
                = Cardinality(ToSync)
           /\ Processed = ToSync
           /\ \A b \in ToSync : rep[b].result \in {"synced", "skipped", "failed"}

\* ------------------------------------------------------------ state keys as text
\* A branch name is a text over a letter and the two characters of '->'.
MaxName == 3
NameChars == {"a", "-", ">"}
Names == UNION {[1..n -> NameChars] : n \in 1..MaxName}

\* '->' occurs in the text at position i
ArrowAt(text, i) == i >= 1 /\ i < Len(text) /\ text[i] = "-" /\ text[i + 1] = ">"

\* an enumeration that keeps every line of 'git branch -r'
ListedAll(line) == TRUE

\* _get_branches keeps a line of 'git branch -r' only if it holds no '->'
Listed(line) == \A i \in 1..Len(line) : ~ArrowAt(line, i)

\* state_key of _sync_branch as the text it is: '%s->%s' when the names
\* differ, else the source name
StateKeyText(source_branch, dest_branch) ==
    IF source_branch # dest_branch THEN source_branch \o <<"-", ">">> \o dest_branch
    ELSE source_branch

\* the state key of one pair (source branch, destination branch) is built
MakeKey ==
    /\ call.at = "start"
    /\ call' = [call EXCEPT !.at = "done",
                            !.key = StateKeyText(call.source_branch, call.dest_branch)]
    /\ UNCHANGED mainvars

\* the pairs the tool can replicate: a source branch that the enumeration
\* lists, and the name branch_map gives it, any name or its own
InitKey ==
    /\ Parked
    /\ call \in {c \in [at : {"start"}, source_branch : Names, dest_branch : Names, key : {<<>>}] :
                    Listed(c.source_branch)}
NextKey == MakeKey
SpecKey == InitKey /\ [][NextKey]_vars

\* ---- C39 ----
\* the pairs of names whose key can be the text: the text taken as both
\* names, and every split of it at an occurrence of '->'
Splits(text) ==
    {<<text, text>>}
    \cup {<<SubSeq(text, 1, i - 1), SubSeq(text, i + 2, Len(text))>> : i \in {j \in 1..Len(text) : ArrowAt(text, j)}}

\* C39: the state key is injective over the pairs (S, D) the tool can
\* replicate: since the enumeration drops every source branch name that
\* holds '->', no other pair has the key of the pair (S, D)
C39_StateKeyInjective ==
    call.at = "done" =>
        \A p \in Splits(call.key) :
            /\ p[1] # <<>> /\ p[2] # <<>>
            /\ Listed(p[1])
            /\ StateKeyText(p[1], p[2]) = call.key
            => p = <<call.source_branch, call.dest_branch>>

\* a renamed branch whose key holds '->' twice
C39_Witness ==
    /\ call.at = "done"
    /\ call.source_branch # call.dest_branch
    /\ Cardinality({i \in 1..Len(call.key) : ArrowAt(call.key, i)}) = 2

\* ------------------------------------------------------------ all repositories
MaxRepos == 2
\* the names the configured repositories can have; load_config takes the
\* list as written, two entries of one name included
RepoNames == {"r1", "r2"}
Configured == UNION {[1..n -> RepoNames] : n \in 1..MaxRepos}

\* sync_repository returns after its last statement, which stores the
\* report entry under the repository's name: true iff the status is 'success'
SyncRepositoryReturns(status) ==
    /\ call.at = "run"
    /\ Len(call.seen) < Len(call.repositories)
    /\ LET name == call.repositories[Len(call.seen) + 1]
       IN  call' = [call EXCEPT
                       !.seen = Append(@, status),
                       !.report = Put(@, name, status),
                       !.successful_repos = IF status = "success" THEN @ + 1 ELSE @,
                       !.failed_repos = IF status = "success" THEN @ ELSE @ + 1]
    /\ UNCHANGED mainvars

\* an exception leaves sync_repository: one raised outside its try block
\* (the log call of line 944) or inside its handler (lines 1096-1098); the
\* handler of run_sync counts the repository as failed
SyncRepositoryRaises ==
    /\ call.at = "run"
    /\ Len(call.seen) < Len(call.repositories)
    /\ call' = [call EXCEPT !.seen = Append(@, "raised"), !.failed_repos = @ + 1]
    /\ UNCHANGED mainvars

\* run_sync after its loop
RunSyncReturns ==
    /\ call.at = "run"
    /\ Len(call.seen) = Len(call.repositories)
    /\ call' = [call EXCEPT !.at = "done", !.result = (call.failed_repos = 0)]
    /\ UNCHANGED mainvars

InitRepos ==
    /\ Parked
    /\ call \in [at : {"run"}, repositories : Configured, seen : {<<>>}, report : {EmptyMap},
                 successful_repos : {0}, failed_repos : {0}, result : {FALSE}]
NextRepos ==
    \/ \E status \in {"success", "partial_success", "failed"} : SyncRepositoryReturns(status)
    \/ SyncRepositoryRaises
    \/ RunSyncReturns
SpecRepos == InitRepos /\ [][NextRepos]_vars

\* ---- C40 ----
\* C40: a failure or an exception in one repository never prevents the
\* following ones from being processed: when run_sync returns, every
\* configured repository has a report entry, successful + failed equals
\* total_repos, and the result is true iff every repository's status is
\* 'success'
C40_EveryRepositoryReported ==
    call.at = "done" =>
        /\ Len(call.seen) = Len(call.repositories)
        /\ \A i \in 1..Len(call.repositories) : call.repositories[i] \in DOMAIN call.report
        /\ call.successful_repos + call.failed_repos = Len(call.repositories)
        /\ call.result <=> \A i \in 1..Len(call.repositories) : call.seen[i] = "success"

====
